---- MODULE Spec2Model ----
(***************************************************************************)
(* Packed truth-value vectors of internal/attic: BelnapVec (four-valued)   *)
(* and KleeneVec (three-valued), both stored as interleaved bit-planes     *)
(* [pos_0, neg_0, pos_1, neg_1, ...] of 64-bit words.                      *)
(*                                                                         *)
(* A uint64 word is modelled as the set of its set bit positions, a subset *)
(* of 0..63: x & y is intersection, x | y union, x &^ y difference, ^x     *)
(* the complement in 0..63.  A slice is modelled by the sequence `words`   *)
(* (its len elements) and the sequence `spare` (what the backing array     *)
(* holds between len and cap).                                             *)
(***************************************************************************)
EXTENDS Integers, Sequences, FiniteSets, TLC

\* ------------------------------------------------------------------ bounds
\* Number of operations one behaviour performs after construction.
MaxOps == 3

\* ------------------------------------------------------- word-plane arithmetic
bitsLog2 == 6
bitsMask == (2 ^ bitsLog2) - 1

\* ^uint64(0): every bit of a 64-bit word.
AllOnes == 0 .. 63

\* n >> bitsLog2 on a signed int is the floor division by 2^bitsLog2.
wordsNeeded(n) == (n + bitsMask) \div (2 ^ bitsLog2)

tailMask(n) ==
    LET r == n % (bitsMask + 1)
    IN  IF r = 0 THEN AllOnes ELSE 0 .. (r - 1)

\* Variant: the neg plane combined with & like the pos plane.
andWord_NegAnd(aPos, aNeg, bPos, bNeg) == <<aPos \cap bPos, aNeg \cap bNeg>>

andWord(aPos, aNeg, bPos, bNeg) == <<aPos \cap bPos, aNeg \cup bNeg>>

\* Variant: the neg plane combined with | like in mergeWord.
orWord_NegOr(aPos, aNeg, bPos, bNeg) == <<aPos \cup bPos, aNeg \cup bNeg>>

orWord(aPos, aNeg, bPos, bNeg) == <<aPos \cup bPos, aNeg \cap bNeg>>

\* Variant: the neg word written to both planes.
notWord_NegTwice(pos, neg) == <<neg, neg>>

notWord(pos, neg) == <<neg, pos>>

\* Variant: the neg plane combined with & like in orWord.
mergeWord_NegAnd(aPos, aNeg, bPos, bNeg) == <<aPos \cup bPos, aNeg \cap bNeg>>

mergeWord(aPos, aNeg, bPos, bNeg) == <<aPos \cup bPos, aNeg \cup bNeg>>

\* -------------------------------------------------------------- scalar values
\* Encoding (neg_bit << 1) | pos_bit.
Unknown == 0
True == 1
False == 2
Both == 3

Value == {Unknown, True, False, Both}

fromBits == <<Unknown, True, False, Both>>

HasInfo(v) == v # Unknown

\* v & 1 and v >> 1 of a Value.
PosBit(v) == v % 2
NegBit(v) == v \div 2

ValueIsKnown(v) == v # Unknown

\* Variant: either bit set instead of exactly one.
ValueIsDetermined_AnyBit(v) == PosBit(v) + NegBit(v) # 0

\* (v & 1) ^ (v >> 1) != 0
ValueIsDetermined(v) == (PosBit(v) + NegBit(v)) % 2 # 0

ValueIsContradicted(v) == v = Both

\* The pair (val, ok).
ValueToBool(v) ==
    IF ValueIsDetermined(v) THEN <<PosBit(v) # 0, TRUE>> ELSE <<FALSE, FALSE>>

ValueNot(v) == fromBits[(NegBit(v) + 2 * PosBit(v)) + 1]

\* Variant: And with the neg bits combined by & like the pos bits.
ValueAnd_NegAnd(v, other) ==
    LET rPos == IF PosBit(v) = 1 /\ PosBit(other) = 1 THEN 1 ELSE 0
        rNeg == IF NegBit(v) = 1 /\ NegBit(other) = 1 THEN 1 ELSE 0
    IN  fromBits[(2 * rNeg + rPos) + 1]

ValueAnd(v, other) ==
    LET rPos == IF PosBit(v) = 1 /\ PosBit(other) = 1 THEN 1 ELSE 0
        rNeg == IF NegBit(v) = 1 \/ NegBit(other) = 1 THEN 1 ELSE 0
    IN  fromBits[(2 * rNeg + rPos) + 1]

ValueOr(v, other) ==
    LET rPos == IF PosBit(v) = 1 \/ PosBit(other) = 1 THEN 1 ELSE 0
        rNeg == IF NegBit(v) = 1 /\ NegBit(other) = 1 THEN 1 ELSE 0
    IN  fromBits[(2 * rNeg + rPos) + 1]

ValueImplies(v, other) == ValueOr(ValueNot(v), other)

ValueMerge(v, other) ==
    LET rPos == IF PosBit(v) = 1 \/ PosBit(other) = 1 THEN 1 ELSE 0
        rNeg == IF NegBit(v) = 1 \/ NegBit(other) = 1 THEN 1 ELSE 0
    IN  fromBits[(2 * rNeg + rPos) + 1]

\* ----------------------------------------------- scalar values, three-valued
\* Encoding (known_bit << 1) | value_bit of the type Kleene.
Kleene_Unknown == 0
Kleene_False == 2
Kleene_True == 3

Kleene == {Kleene_Unknown, Kleene_False, Kleene_True}

Kleene_Not(k) ==
    CASE k = Kleene_True -> Kleene_False
      [] k = Kleene_False -> Kleene_True
      [] OTHER -> Kleene_Unknown

\* Variant: And without the case Unknown And False.
Kleene_And_NoUnknownFalse(k, other) ==
    CASE k = Kleene_True -> other
      [] k = Kleene_False -> Kleene_False
      [] OTHER -> Kleene_Unknown

Kleene_And(k, other) ==
    CASE k = Kleene_True -> other
      [] k = Kleene_False \/ (k = Kleene_Unknown /\ other = Kleene_False) -> Kleene_False
      [] OTHER -> Kleene_Unknown

Kleene_Or(k, other) ==
    CASE k = Kleene_False -> other
      [] k = Kleene_True \/ (k = Kleene_Unknown /\ other = Kleene_True) -> Kleene_True
      [] OTHER -> Kleene_Unknown

Kleene_Implies(k, other) == Kleene_Or(Kleene_Not(k), other)

\* ------------------------------------------------------------- slice helpers
\* make([]uint64, n): n zero words, no spare capacity.
MakeWords(n) == [k \in 1 .. n |-> {}]

\* s[k] for a 0-based index k.
At(s, k) == s[k + 1]

Put(s, k, x) == [s EXCEPT ![k + 1] = x]

\* Variant: append that, where the capacity allows, reslices over what the
\* backing array holds there instead of writing x and y.
Append2_KeepSpare(v, x, y) ==
    IF Len(v.spare) >= 2
      THEN [v EXCEPT !.words = v.words \o SubSeq(v.spare, 1, 2),
                     !.spare = SubSeq(v.spare, 3, Len(v.spare))]
      ELSE [v EXCEPT !.words = v.words \o <<x, y>>, !.spare = <<>>]

\* append(v.words, x, y): in place when the capacity allows (overwriting what
\* the backing array held there), otherwise into a fresh array.
Append2(v, x, y) ==
    [v EXCEPT !.words = v.words \o <<x, y>>,
              !.spare = IF Len(v.spare) >= 2
                          THEN SubSeq(v.spare, 3, Len(v.spare))
                          ELSE <<>>]

\* v.words = v.words[:n]: the elements cut off stay in the backing array.
Reslice(v, n) ==
    [v EXCEPT !.words = SubSeq(v.words, 1, n),
              !.spare = SubSeq(v.words, n + 1, Len(v.words)) \o v.spare]

RECURSIVE AppendPairs(_, _, _, _)
\* for i := from; i < to; i++ { v.words = append(v.words, x, y) }
AppendPairs(v, count, x, y) ==
    IF count <= 0 THEN v ELSE AppendPairs(Append2(v, x, y), count - 1, x, y)

\* ^uint64(0) * uint64(bit) for bit in {0, 1}.
FillWord(bit) == IF bit = 1 THEN AllOnes ELSE {}

\* ------------------------------------------------------------------ BelnapVec
NewBelnapVec(width) ==
    [width |-> width, words |-> MakeWords(2 * wordsNeeded(width)), spare |-> <<>>]

BelnapVec_Width(v) == v.width

BelnapVec_maskTail(v) ==
    LET nw == wordsNeeded(v.width)
    IN  IF nw > 0
          THEN LET m == tailMask(v.width)
                   base == 2 * (nw - 1)
               IN  [v EXCEPT !.words =
                        Put(Put(v.words, base, At(v.words, base) \cap m),
                            base + 1, At(v.words, base + 1) \cap m)]
          ELSE v

newBelnapFilled(width, fill) ==
    LET nw == wordsNeeded(width)
        fillPos == FillWord(PosBit(fill))
        fillNeg == FillWord(NegBit(fill))
        words == [k \in 1 .. 2 * nw |-> IF k % 2 = 1 THEN fillPos ELSE fillNeg]
    IN  BelnapVec_maskTail([width |-> width, words |-> words, spare |-> <<>>])

BelnapAllTrue(width) == newBelnapFilled(width, True)

BelnapAllFalse(width) == newBelnapFilled(width, False)

\* Variant: Truncate without the trailing maskTail.
BelnapVec_Truncate_NoMask(v, newWidth) ==
    IF newWidth >= v.width
      THEN [vec |-> v, panicked |-> FALSE]
      ELSE LET v1 == [v EXCEPT !.width = newWidth]
               nw == wordsNeeded(newWidth)
           IN  IF 2 * nw < 0 \/ 2 * nw > Len(v.words) + Len(v.spare)
                 THEN [vec |-> v1, panicked |-> TRUE]
                 ELSE [vec |-> Reslice(v1, 2 * nw), panicked |-> FALSE]

\* The result is [vec, panicked]: the receiver after the call, and whether the
\* call ended in a run-time panic (a slice bound out of range).
BelnapVec_Truncate(v, newWidth) ==
    IF newWidth >= v.width
      THEN [vec |-> v, panicked |-> FALSE]
      ELSE LET v1 == [v EXCEPT !.width = newWidth]
               nw == wordsNeeded(newWidth)
           IN  IF 2 * nw < 0 \/ 2 * nw > Len(v.words) + Len(v.spare)
                 THEN [vec |-> v1, panicked |-> TRUE]
                 ELSE [vec |-> BelnapVec_maskTail(Reslice(v1, 2 * nw)),
                       panicked |-> FALSE]

\* Variant: Resize that fills only the appended words, not the rest of the
\* current last word pair.
BelnapVec_Resize_NoHighFill(v, newWidth, fill) ==
    IF newWidth <= v.width
      THEN BelnapVec_Truncate(v, newWidth)
      ELSE LET oldNw == wordsNeeded(v.width)
               newNw == wordsNeeded(newWidth)
               fillPos == FillWord(PosBit(fill))
               fillNeg == FillWord(NegBit(fill))
               v2 == AppendPairs(v, newNw - oldNw, fillPos, fillNeg)
               v3 == [v2 EXCEPT !.width = newWidth]
           IN  [vec |-> IF HasInfo(fill) THEN BelnapVec_maskTail(v3) ELSE v3,
                panicked |-> FALSE]

\* Variant: a shrinking Resize that only lowers the width, keeping the words.
BelnapVec_Resize_ShrinkWidthOnly(v, newWidth, fill) ==
    IF newWidth <= v.width
      THEN [vec |-> [v EXCEPT !.width = newWidth], panicked |-> FALSE]
      ELSE LET oldWidth == v.width
               oldNw == wordsNeeded(oldWidth)
               newNw == wordsNeeded(newWidth)
               fillPos == FillWord(PosBit(fill))
               fillNeg == FillWord(NegBit(fill))
               v1 == IF oldNw > 0 /\ oldWidth % (bitsMask + 1) # 0
                       THEN LET highMask == AllOnes \ tailMask(oldWidth)
                                base == 2 * (oldNw - 1)
                            IN  [v EXCEPT !.words =
                                    Put(Put(v.words, base,
                                            At(v.words, base) \cup (fillPos \cap highMask)),
                                        base + 1,
                                        At(v.words, base + 1) \cup (fillNeg \cap highMask))]
                       ELSE v
               v2 == AppendPairs(v1, newNw - oldNw, fillPos, fillNeg)
               v3 == [v2 EXCEPT !.width = newWidth]
           IN  [vec |-> IF HasInfo(fill) THEN BelnapVec_maskTail(v3) ELSE v3,
                panicked |-> FALSE]

BelnapVec_Resize(v, newWidth, fill) ==
    IF newWidth <= v.width
      THEN BelnapVec_Truncate(v, newWidth)
      ELSE LET oldWidth == v.width
               oldNw == wordsNeeded(oldWidth)
               newNw == wordsNeeded(newWidth)
               fillPos == FillWord(PosBit(fill))
               fillNeg == FillWord(NegBit(fill))
               v1 == IF oldNw > 0 /\ oldWidth % (bitsMask + 1) # 0
                       THEN LET highMask == AllOnes \ tailMask(oldWidth)
                                base == 2 * (oldNw - 1)
                            IN  [v EXCEPT !.words =
                                    Put(Put(v.words, base,
                                            At(v.words, base) \cup (fillPos \cap highMask)),
                                        base + 1,
                                        At(v.words, base + 1) \cup (fillNeg \cap highMask))]
                       ELSE v
               v2 == AppendPairs(v1, newNw - oldNw, fillPos, fillNeg)
               v3 == [v2 EXCEPT !.width = newWidth]
           IN  [vec |-> IF HasInfo(fill) THEN BelnapVec_maskTail(v3) ELSE v3,
                panicked |-> FALSE]

BelnapVec_getUnchecked(v, i) ==
    LET w == i \div (2 ^ bitsLog2)
        b == i % (bitsMask + 1)
        base == 2 * w
        posBit == IF b \in At(v.words, base) THEN 1 ELSE 0
        negBit == IF b \in At(v.words, base + 1) THEN 1 ELSE 0
    IN  fromBits[(2 * negBit + posBit) + 1]

\* Variant: Get that answers Unknown without an error outside the bounds.
BelnapVec_Get_SilentDefault(v, i) ==
    IF i < 0 \/ i >= v.width
      THEN [val |-> Unknown, err |-> FALSE]
      ELSE [val |-> BelnapVec_getUnchecked(v, i), err |-> FALSE]

\* The result is [val, err]: err is TRUE for ErrOutOfBounds.
BelnapVec_Get(v, i) ==
    IF i < 0 \/ i >= v.width
      THEN [val |-> Unknown, err |-> TRUE]
      ELSE [val |-> BelnapVec_getUnchecked(v, i), err |-> FALSE]

\* Variant: the neg plane cleared with &= mask in place of &^= mask.
BelnapVec_setUnchecked_AndMask(v, i, val) ==
    LET w == i \div (2 ^ bitsLog2)
        b == i % (bitsMask + 1)
        base == 2 * w
        mask == {b}
        p == IF PosBit(val) # 0
               THEN At(v.words, base) \cup mask
               ELSE At(v.words, base) \ mask
        n == IF NegBit(val) # 0
               THEN At(v.words, base + 1) \cup mask
               ELSE At(v.words, base + 1) \cap mask
    IN  [v EXCEPT !.words = Put(Put(v.words, base, p), base + 1, n)]

BelnapVec_setUnchecked(v, i, val) ==
    LET w == i \div (2 ^ bitsLog2)
        b == i % (bitsMask + 1)
        base == 2 * w
        mask == {b}
        p == IF PosBit(val) # 0
               THEN At(v.words, base) \cup mask
               ELSE At(v.words, base) \ mask
        n == IF NegBit(val) # 0
               THEN At(v.words, base + 1) \cup mask
               ELSE At(v.words, base + 1) \ mask
    IN  [v EXCEPT !.words = Put(Put(v.words, base, p), base + 1, n)]

\* Variant: Set that returns without a panic on a negative index.
BelnapVec_Set_IgnoreNegative(v, i, val) ==
    IF i < 0
      THEN [vec |-> v, panicked |-> FALSE]
      ELSE LET v1 == IF i >= v.width
                       THEN LET newWidth == i + 1
                                newNw == wordsNeeded(newWidth)
                                oldNw == wordsNeeded(v.width)
                            IN  [AppendPairs(v, newNw - oldNw, {}, {})
                                    EXCEPT !.width = newWidth]
                       ELSE v
           IN  [vec |-> BelnapVec_setUnchecked(v1, i, val), panicked |-> FALSE]

BelnapVec_Set(v, i, val) ==
    IF i < 0
      THEN [vec |-> v, panicked |-> TRUE]
      ELSE LET v1 == IF i >= v.width
                       THEN LET newWidth == i + 1
                                newNw == wordsNeeded(newWidth)
                                oldNw == wordsNeeded(v.width)
                            IN  [AppendPairs(v, newNw - oldNw, {}, {})
                                    EXCEPT !.width = newWidth]
                       ELSE v
           IN  [vec |-> BelnapVec_setUnchecked(v1, i, val), panicked |-> FALSE]

BelnapVec_Not(v) ==
    LET out == [k \in 1 .. Len(v.words) |->
                  LET i == 2 * ((k - 1) \div 2)
                  IN  notWord(At(v.words, i), At(v.words, i + 1))[((k - 1) % 2) + 1]]
    IN  BelnapVec_maskTail([width |-> v.width, words |-> out, spare |-> <<>>])

\* The pair (pos, neg) a binary operator reads at word pair i of an operand:
\* zero words when the operand has no such pair.
PairOrZero(words, i) ==
    LET base == 2 * i
    IN  IF base + 1 < Len(words)
          THEN <<At(words, base), At(words, base + 1)>>
          ELSE <<{}, {}>>

Max(x, y) == IF x >= y THEN x ELSE y

\* Variant: And sized by the receiver's width alone.
BelnapVec_And_ReceiverWidth(v, other) ==
    LET width == v.width
        nw == wordsNeeded(width)
        out == [k \in 1 .. 2 * nw |->
                  LET i == (k - 1) \div 2
                      A == PairOrZero(v.words, i)
                      B == PairOrZero(other.words, i)
                  IN  andWord(A[1], A[2], B[1], B[2])[((k - 1) % 2) + 1]]
    IN  [width |-> width, words |-> out, spare |-> <<>>]

BelnapVec_And(v, other) ==
    LET width == Max(v.width, other.width)
        nw == wordsNeeded(width)
        out == [k \in 1 .. 2 * nw |->
                  LET i == (k - 1) \div 2
                      A == PairOrZero(v.words, i)
                      B == PairOrZero(other.words, i)
                  IN  andWord(A[1], A[2], B[1], B[2])[((k - 1) % 2) + 1]]
    IN  [width |-> width, words |-> out, spare |-> <<>>]

\* Variant: Or sized by the receiver's width alone.
BelnapVec_Or_ReceiverWidth(v, other) ==
    LET width == v.width
        nw == wordsNeeded(width)
        out == [k \in 1 .. 2 * nw |->
                  LET i == (k - 1) \div 2
                      A == PairOrZero(v.words, i)
                      B == PairOrZero(other.words, i)
                  IN  orWord(A[1], A[2], B[1], B[2])[((k - 1) % 2) + 1]]
    IN  [width |-> width, words |-> out, spare |-> <<>>]

BelnapVec_Or(v, other) ==
    LET width == Max(v.width, other.width)
        nw == wordsNeeded(width)
        out == [k \in 1 .. 2 * nw |->
                  LET i == (k - 1) \div 2
                      A == PairOrZero(v.words, i)
                      B == PairOrZero(other.words, i)
                  IN  orWord(A[1], A[2], B[1], B[2])[((k - 1) % 2) + 1]]
    IN  [width |-> width, words |-> out, spare |-> <<>>]

\* Variant: the operands exchanged, other.Not().Or(v).
BelnapVec_Implies_Converse(v, other) == BelnapVec_Or(BelnapVec_Not(other), v)

BelnapVec_Implies(v, other) == BelnapVec_Or(BelnapVec_Not(v), other)

BelnapVec_Merge(v, other) ==
    LET width == Max(v.width, other.width)
        nw == wordsNeeded(width)
        out == [k \in 1 .. 2 * nw |->
                  LET i == (k - 1) \div 2
                      A == PairOrZero(v.words, i)
                      B == PairOrZero(other.words, i)
                  IN  mergeWord(A[1], A[2], B[1], B[2])[((k - 1) % 2) + 1]]
    IN  [width |-> width, words |-> out, spare |-> <<>>]

\* bits.OnesCount64(w).
OnesCount64(w) == Cardinality(w)

RECURSIVE SumSeq(_)
\* n := 0; for ... { n += s[k] }
SumSeq(s) == IF s = <<>> THEN 0 ELSE Head(s) + SumSeq(Tail(s))

\* x ^ y on words.
Xor(x, y) == (x \ y) \cup (y \ x)

\* Variant: IsConsistent that stops one word pair short of the end.
BelnapVec_IsConsistent_SkipLast(v) ==
    \A k \in 1 .. ((Len(v.words) \div 2) - 1) :
        At(v.words, 2 * (k - 1)) \cap At(v.words, 2 * (k - 1) + 1) = {}

BelnapVec_IsConsistent(v) ==
    \A k \in 1 .. (Len(v.words) \div 2) :
        At(v.words, 2 * (k - 1)) \cap At(v.words, 2 * (k - 1) + 1) = {}

BelnapVec_IsAllDetermined(v) ==
    LET nw == wordsNeeded(v.width)
    IN  IF nw = 0
          THEN TRUE
          ELSE LET m == tailMask(v.width)
                   base == 2 * (nw - 1)
               IN  /\ \A i \in 0 .. (nw - 2) :
                         Xor(At(v.words, 2 * i), At(v.words, 2 * i + 1)) = AllOnes
                   /\ Xor(At(v.words, base), At(v.words, base + 1)) = m

\* Variant: the last word pair compared with a full word, not with tailMask.
BelnapVec_IsAllTrue_FullWord(v) ==
    LET nw == wordsNeeded(v.width)
    IN  IF nw = 0
          THEN TRUE
          ELSE \A i \in 0 .. (nw - 1) :
                   At(v.words, 2 * i) = AllOnes /\ At(v.words, 2 * i + 1) = {}

BelnapVec_IsAllTrue(v) ==
    LET nw == wordsNeeded(v.width)
    IN  IF nw = 0
          THEN TRUE
          ELSE LET m == tailMask(v.width)
                   base == 2 * (nw - 1)
               IN  /\ \A i \in 0 .. (nw - 2) :
                         At(v.words, 2 * i) = AllOnes /\ At(v.words, 2 * i + 1) = {}
                   /\ At(v.words, base) = m
                   /\ At(v.words, base + 1) = {}

BelnapVec_IsAllFalse(v) ==
    LET nw == wordsNeeded(v.width)
    IN  IF nw = 0
          THEN TRUE
          ELSE LET m == tailMask(v.width)
                   base == 2 * (nw - 1)
               IN  /\ \A i \in 0 .. (nw - 2) :
                         At(v.words, 2 * i) = {} /\ At(v.words, 2 * i + 1) = AllOnes
                   /\ At(v.words, base) = {}
                   /\ At(v.words, base + 1) = m

\* Variant: CountTrue that counts the pos plane alone.
BelnapVec_CountTrue_PosPlane(v) ==
    SumSeq([k \in 1 .. (Len(v.words) \div 2) |->
              OnesCount64(At(v.words, 2 * (k - 1)))])

BelnapVec_CountTrue(v) ==
    SumSeq([k \in 1 .. (Len(v.words) \div 2) |->
              OnesCount64(At(v.words, 2 * (k - 1)) \ At(v.words, 2 * (k - 1) + 1))])

BelnapVec_CountFalse(v) ==
    SumSeq([k \in 1 .. (Len(v.words) \div 2) |->
              OnesCount64(At(v.words, 2 * (k - 1) + 1) \ At(v.words, 2 * (k - 1)))])

BelnapVec_CountBoth(v) ==
    SumSeq([k \in 1 .. (Len(v.words) \div 2) |->
              OnesCount64(At(v.words, 2 * (k - 1)) \cap At(v.words, 2 * (k - 1) + 1))])

BelnapVec_CountUnknown(v) ==
    v.width - BelnapVec_CountTrue(v) - BelnapVec_CountFalse(v) - BelnapVec_CountBoth(v)

\* ------------------------------------------------------------------ KleeneVec
\* Invariant of the type: pos & neg == 0 within every word pair.
NewKleeneVec(width) ==
    [width |-> width, words |-> MakeWords(2 * wordsNeeded(width)), spare |-> <<>>]

KleeneVec_Width(v) == v.width

KleeneVec_maskTail(v) ==
    LET nw == wordsNeeded(v.width)
    IN  IF nw > 0
          THEN LET m == tailMask(v.width)
                   base == 2 * (nw - 1)
               IN  [v EXCEPT !.words =
                        Put(Put(v.words, base, At(v.words, base) \cap m),
                            base + 1, At(v.words, base + 1) \cap m)]
          ELSE v

newKleeneFilled(width, fill) ==
    LET nw == wordsNeeded(width)
        fillPos == IF fill = True THEN AllOnes ELSE {}
        fillNeg == IF fill = False THEN AllOnes ELSE {}
        words == [k \in 1 .. 2 * nw |-> IF k % 2 = 1 THEN fillPos ELSE fillNeg]
    IN  KleeneVec_maskTail([width |-> width, words |-> words, spare |-> <<>>])

KleeneAllTrue(width) == newKleeneFilled(width, True)

KleeneAllFalse(width) == newKleeneFilled(width, False)

\* Variant: Truncate that keeps every word of the backing store.
KleeneVec_Truncate_NoReslice(v, newWidth) ==
    IF newWidth >= v.width
      THEN [vec |-> v, panicked |-> FALSE]
      ELSE [vec |-> KleeneVec_maskTail([v EXCEPT !.width = newWidth]),
            panicked |-> FALSE]

\* The result is [vec, panicked]: the receiver after the call, and whether the
\* call ended in a run-time panic (a slice bound out of range).
KleeneVec_Truncate(v, newWidth) ==
    IF newWidth >= v.width
      THEN [vec |-> v, panicked |-> FALSE]
      ELSE LET v1 == [v EXCEPT !.width = newWidth]
               nw == wordsNeeded(newWidth)
           IN  IF 2 * nw < 0 \/ 2 * nw > Len(v.words) + Len(v.spare)
                 THEN [vec |-> v1, panicked |-> TRUE]
                 ELSE [vec |-> KleeneVec_maskTail(Reslice(v1, 2 * nw)),
                       panicked |-> FALSE]

KleeneVec_Resize(v, newWidth, fill) ==
    IF fill = Both
      THEN [vec |-> v, panicked |-> TRUE]
    ELSE IF newWidth <= v.width
      THEN KleeneVec_Truncate(v, newWidth)
      ELSE LET oldWidth == v.width
               oldNw == wordsNeeded(oldWidth)
               newNw == wordsNeeded(newWidth)
               fillPos == IF fill = True THEN AllOnes ELSE {}
               fillNeg == IF fill = False THEN AllOnes ELSE {}
               v1 == IF oldNw > 0 /\ oldWidth % (bitsMask + 1) # 0
                       THEN LET highMask == AllOnes \ tailMask(oldWidth)
                                base == 2 * (oldNw - 1)
                            IN  [v EXCEPT !.words =
                                    Put(Put(v.words, base,
                                            At(v.words, base) \cup (fillPos \cap highMask)),
                                        base + 1,
                                        At(v.words, base + 1) \cup (fillNeg \cap highMask))]
                       ELSE v
               v2 == AppendPairs(v1, newNw - oldNw, fillPos, fillNeg)
               v3 == [v2 EXCEPT !.width = newWidth]
           IN  [vec |-> IF HasInfo(fill) THEN KleeneVec_maskTail(v3) ELSE v3,
                panicked |-> FALSE]

KleeneVec_getUnchecked(v, i) ==
    LET w == i \div (2 ^ bitsLog2)
        b == i % (bitsMask + 1)
        base == 2 * w
        posBit == IF b \in At(v.words, base) THEN 1 ELSE 0
        negBit == IF b \in At(v.words, base + 1) THEN 1 ELSE 0
    IN  fromBits[(2 * negBit + posBit) + 1]

\* The result is [val, err]: err is TRUE for ErrOutOfBounds.
KleeneVec_Get(v, i) ==
    IF i < 0 \/ i >= v.width
      THEN [val |-> Unknown, err |-> TRUE]
      ELSE [val |-> KleeneVec_getUnchecked(v, i), err |-> FALSE]

\* Variant: the bit set in the plane of val and left as it was in the other.
KleeneVec_setUnchecked_NoClear(v, i, val) ==
    LET w == i \div (2 ^ bitsLog2)
        b == i % (bitsMask + 1)
        base == 2 * w
        p == IF val = True
               THEN At(v.words, base) \cup {b}
               ELSE At(v.words, base)
        n == IF val = False
               THEN At(v.words, base + 1) \cup {b}
               ELSE At(v.words, base + 1)
    IN  [v EXCEPT !.words = Put(Put(v.words, base, p), base + 1, n)]

KleeneVec_setUnchecked(v, i, val) ==
    LET w == i \div (2 ^ bitsLog2)
        b == i % (bitsMask + 1)
        base == 2 * w
        p == IF val = True
               THEN At(v.words, base) \cup {b}
               ELSE At(v.words, base) \ {b}
        n == IF val = False
               THEN At(v.words, base + 1) \cup {b}
               ELSE At(v.words, base + 1) \ {b}
    IN  [v EXCEPT !.words = Put(Put(v.words, base, p), base + 1, n)]

\* Variant: Set that grows by reslicing into spare capacity where there is
\* some, keeping what the backing array held there.
KleeneVec_Set_Reslice(v, i, val) ==
    IF i < 0
      THEN [vec |-> v, panicked |-> TRUE]
    ELSE IF val = Both
      THEN [vec |-> v, panicked |-> TRUE]
      ELSE LET v1 == IF i >= v.width
                       THEN LET newWidth == i + 1
                                newNw == wordsNeeded(newWidth)
                                oldNw == wordsNeeded(v.width)
                                need == 2 * (newNw - oldNw)
                            IN  IF need <= Len(v.spare)
                                  THEN [v EXCEPT
                                          !.words = v.words \o SubSeq(v.spare, 1, need),
                                          !.spare = SubSeq(v.spare, need + 1, Len(v.spare)),
                                          !.width = newWidth]
                                  ELSE [AppendPairs(v, newNw - oldNw, {}, {})
                                          EXCEPT !.width = newWidth]
                       ELSE v
           IN  [vec |-> KleeneVec_setUnchecked(v1, i, val), panicked |-> FALSE]

\* Variant: Set that rejects Both only after growing the vector.
KleeneVec_Set_GrowThenCheck(v, i, val) ==
    IF i < 0
      THEN [vec |-> v, panicked |-> TRUE]
      ELSE LET v1 == IF i >= v.width
                       THEN LET newWidth == i + 1
                                newNw == wordsNeeded(newWidth)
                                oldNw == wordsNeeded(v.width)
                            IN  [AppendPairs(v, newNw - oldNw, {}, {})
                                    EXCEPT !.width = newWidth]
                       ELSE v
           IN  IF val = Both
                 THEN [vec |-> v1, panicked |-> TRUE]
                 ELSE [vec |-> KleeneVec_setUnchecked(v1, i, val),
                       panicked |-> FALSE]

KleeneVec_Set(v, i, val) ==
    IF i < 0
      THEN [vec |-> v, panicked |-> TRUE]
    ELSE IF val = Both
      THEN [vec |-> v, panicked |-> TRUE]
      ELSE LET v1 == IF i >= v.width
                       THEN LET newWidth == i + 1
                                newNw == wordsNeeded(newWidth)
                                oldNw == wordsNeeded(v.width)
                            IN  [AppendPairs(v, newNw - oldNw, {}, {})
                                    EXCEPT !.width = newWidth]
                       ELSE v
           IN  [vec |-> KleeneVec_setUnchecked(v1, i, val), panicked |-> FALSE]

KleeneVec_Not(v) ==
    LET out == [k \in 1 .. Len(v.words) |->
                  LET i == 2 * ((k - 1) \div 2)
                      pos == At(v.words, i)
                      neg == At(v.words, i + 1)
                  IN  IF (k - 1) % 2 = 0 THEN neg ELSE pos]
    IN  KleeneVec_maskTail([width |-> v.width, words |-> out, spare |-> <<>>])

KleeneVec_And(v, other) ==
    LET width == Max(v.width, other.width)
        nw == wordsNeeded(width)
        out == [k \in 1 .. 2 * nw |->
                  LET i == (k - 1) \div 2
                      A == PairOrZero(v.words, i)
                      B == PairOrZero(other.words, i)
                  IN  andWord(A[1], A[2], B[1], B[2])[((k - 1) % 2) + 1]]
    IN  [width |-> width, words |-> out, spare |-> <<>>]

KleeneVec_Or(v, other) ==
    LET width == Max(v.width, other.width)
        nw == wordsNeeded(width)
        out == [k \in 1 .. 2 * nw |->
                  LET i == (k - 1) \div 2
                      A == PairOrZero(v.words, i)
                      B == PairOrZero(other.words, i)
                  IN  orWord(A[1], A[2], B[1], B[2])[((k - 1) % 2) + 1]]
    IN  [width |-> width, words |-> out, spare |-> <<>>]

KleeneVec_Implies(v, other) == KleeneVec_Or(KleeneVec_Not(v), other)

KleeneVec_IsAllKnown(v) ==
    LET nw == wordsNeeded(v.width)
    IN  IF nw = 0
          THEN TRUE
          ELSE LET m == tailMask(v.width)
                   base == 2 * (nw - 1)
               IN  /\ \A i \in 0 .. (nw - 2) :
                         At(v.words, 2 * i) \cup At(v.words, 2 * i + 1) = AllOnes
                   /\ At(v.words, base) \cup At(v.words, base + 1) = m

KleeneVec_IsAllTrue(v) ==
    LET nw == wordsNeeded(v.width)
    IN  IF nw = 0
          THEN TRUE
          ELSE LET m == tailMask(v.width)
                   base == 2 * (nw - 1)
               IN  /\ \A i \in 0 .. (nw - 2) :
                         At(v.words, 2 * i) = AllOnes /\ At(v.words, 2 * i + 1) = {}
                   /\ At(v.words, base) = m
                   /\ At(v.words, base + 1) = {}

KleeneVec_IsAllFalse(v) ==
    LET nw == wordsNeeded(v.width)
    IN  IF nw = 0
          THEN TRUE
          ELSE LET m == tailMask(v.width)
                   base == 2 * (nw - 1)
               IN  /\ \A i \in 0 .. (nw - 2) :
                         At(v.words, 2 * i) = {} /\ At(v.words, 2 * i + 1) = AllOnes
                   /\ At(v.words, base) = {}
                   /\ At(v.words, base + 1) = m

KleeneVec_CountTrue(v) ==
    SumSeq([k \in 1 .. (Len(v.words) \div 2) |->
              OnesCount64(At(v.words, 2 * (k - 1)))])

KleeneVec_CountFalse(v) ==
    SumSeq([k \in 1 .. (Len(v.words) \div 2) |->
              OnesCount64(At(v.words, 2 * (k - 1) + 1))])

KleeneVec_CountUnknown(v) ==
    v.width - KleeneVec_CountTrue(v) - KleeneVec_CountFalse(v)

\* ------------------------------------------------------------ cross-conversion
KleeneVec_wordsRaw(v) == v.words

\* Variant: the width taken from the number of words, not from the argument.
kleeneVecFromRawParts_WordWidth(width, words) ==
    [width |-> (Len(words) \div 2) * (bitsMask + 1), words |-> words, spare |-> <<>>]

kleeneVecFromRawParts(width, words) ==
    [width |-> width, words |-> words, spare |-> <<>>]

\* The embedding of a KleeneVec: a BelnapVec of the same width over a copy of
\* the two planes.
BelnapVecFromKleeneVec(k) ==
    [width |-> KleeneVec_Width(k), words |-> KleeneVec_wordsRaw(k), spare |-> <<>>]

\* The projection of a BelnapVec.  The result is [ok, vec]: ok is FALSE for the
\* nil result, and vec is then of no meaning.
BelnapVec_ToKleeneVec(v) ==
    IF BelnapVec_IsConsistent(v)
      THEN [ok |-> TRUE, vec |-> kleeneVecFromRawParts(v.width, v.words)]
      ELSE [ok |-> FALSE, vec |-> NewKleeneVec(0)]

\* --------------------------------------------------------------------- driver
\* A client of the package holds two vectors of one logic, "a" and "b", calls
\* the package's operations on them in any order, and keeps the vector the last
\* Not/And/Or/Merge/Implies returned in r.
VARIABLES
    logic,   \* "Kleene" or "Belnap": the vector type in use
    vecs,    \* [a |-> vector, b |-> vector]
    r,       \* the vector the last operator call returned
    last,    \* the last call: its name, receiver, arguments and outcome
    nops     \* number of calls made so far

vars == <<logic, vecs, r, last, nops>>

Names == {"a", "b"}

Other(t) == IF t = "a" THEN "b" ELSE "a"

\* Widths and indices on either side of the word boundaries.
Widths == {0, 1, bitsMask, bitsMask + 1, bitsMask + 2}

Indices == {-1} \cup Widths

Construct(lg, kind, width) ==
    IF lg = "Kleene"
      THEN CASE kind = "New" -> NewKleeneVec(width)
             [] kind = "AllTrue" -> KleeneAllTrue(width)
             [] kind = "AllFalse" -> KleeneAllFalse(width)
      ELSE CASE kind = "New" -> NewBelnapVec(width)
             [] kind = "AllTrue" -> BelnapAllTrue(width)
             [] kind = "AllFalse" -> BelnapAllFalse(width)

VecSet(lg, v, i, val) ==
    IF lg = "Kleene" THEN KleeneVec_Set(v, i, val) ELSE BelnapVec_Set(v, i, val)

VecTruncate(lg, v, w) ==
    IF lg = "Kleene" THEN KleeneVec_Truncate(v, w) ELSE BelnapVec_Truncate(v, w)

VecResize(lg, v, w, fill) ==
    IF lg = "Kleene" THEN KleeneVec_Resize(v, w, fill) ELSE BelnapVec_Resize(v, w, fill)

VecGet(lg, v, i) ==
    IF lg = "Kleene" THEN KleeneVec_Get(v, i) ELSE BelnapVec_Get(v, i)

VecNot(lg, v) ==
    IF lg = "Kleene" THEN KleeneVec_Not(v) ELSE BelnapVec_Not(v)

VecAnd(lg, v, other) ==
    IF lg = "Kleene" THEN KleeneVec_And(v, other) ELSE BelnapVec_And(v, other)

VecOr(lg, v, other) ==
    IF lg = "Kleene" THEN KleeneVec_Or(v, other) ELSE BelnapVec_Or(v, other)

VecImplies(lg, v, other) ==
    IF lg = "Kleene" THEN KleeneVec_Implies(v, other) ELSE BelnapVec_Implies(v, other)

VecCountTrue(lg, v) ==
    IF lg = "Kleene" THEN KleeneVec_CountTrue(v) ELSE BelnapVec_CountTrue(v)

VecCountFalse(lg, v) ==
    IF lg = "Kleene" THEN KleeneVec_CountFalse(v) ELSE BelnapVec_CountFalse(v)

VecCountUnknown(lg, v) ==
    IF lg = "Kleene" THEN KleeneVec_CountUnknown(v) ELSE BelnapVec_CountUnknown(v)

VecIsAllTrue(lg, v) ==
    IF lg = "Kleene" THEN KleeneVec_IsAllTrue(v) ELSE BelnapVec_IsAllTrue(v)

VecIsAllFalse(lg, v) ==
    IF lg = "Kleene" THEN KleeneVec_IsAllFalse(v) ELSE BelnapVec_IsAllFalse(v)

\* IsAllKnown of a KleeneVec, IsAllDetermined of a BelnapVec.
VecIsAllDetermined(lg, v) ==
    IF lg = "Kleene" THEN KleeneVec_IsAllKnown(v) ELSE BelnapVec_IsAllDetermined(v)

NoCall ==
    [op |-> "none", tgt |-> "a", i |-> 0, val |-> Unknown,
     pre |-> NewBelnapVec(0), panicked |-> FALSE, ret |-> Unknown, err |-> FALSE]

Call(op, t, i, val, pre, panicked) ==
    [op |-> op, tgt |-> t, i |-> i, val |-> val,
     pre |-> pre, panicked |-> panicked, ret |-> Unknown, err |-> FALSE]

Init ==
    /\ logic \in {"Kleene", "Belnap"}
    /\ vecs = [t \in Names |-> Construct(logic, "New", 0)]
    /\ r = Construct(logic, "New", 0)
    /\ last = NoCall
    /\ nops = 0

New(t) ==
    /\ nops < MaxOps
    /\ \E kind \in {"New", "AllTrue", "AllFalse"}, w \in Widths :
          /\ vecs' = [vecs EXCEPT ![t] = Construct(logic, kind, w)]
          /\ last' = Call(kind, t, w, Unknown, vecs[t], FALSE)
    /\ nops' = nops + 1
    /\ UNCHANGED <<logic, r>>

Set(t) ==
    /\ nops < MaxOps
    /\ \E i \in Indices, val \in Value :
          LET res == VecSet(logic, vecs[t], i, val)
          IN  /\ vecs' = [vecs EXCEPT ![t] = res.vec]
              /\ last' = Call("Set", t, i, val, vecs[t], res.panicked)
    /\ nops' = nops + 1
    /\ UNCHANGED <<logic, r>>

Truncate(t) ==
    /\ nops < MaxOps
    /\ \E w \in Widths :
          LET res == VecTruncate(logic, vecs[t], w)
          IN  /\ vecs' = [vecs EXCEPT ![t] = res.vec]
              /\ last' = Call("Truncate", t, w, Unknown, vecs[t], res.panicked)
    /\ nops' = nops + 1
    /\ UNCHANGED <<logic, r>>

Resize(t) ==
    /\ nops < MaxOps
    /\ \E w \in Widths, fill \in Value :
          LET res == VecResize(logic, vecs[t], w, fill)
          IN  /\ vecs' = [vecs EXCEPT ![t] = res.vec]
              /\ last' = Call("Resize", t, w, fill, vecs[t], res.panicked)
    /\ nops' = nops + 1
    /\ UNCHANGED <<logic, r>>

Get(t) ==
    /\ nops < MaxOps
    /\ \E i \in Indices :
          LET res == VecGet(logic, vecs[t], i)
          IN  last' = [Call("Get", t, i, Unknown, vecs[t], FALSE)
                          EXCEPT !.ret = res.val, !.err = res.err]
    /\ nops' = nops + 1
    /\ UNCHANGED <<logic, vecs, r>>

Not(t) ==
    /\ nops < MaxOps
    /\ r' = VecNot(logic, vecs[t])
    /\ last' = Call("Not", t, 0, Unknown, vecs[t], FALSE)
    /\ nops' = nops + 1
    /\ UNCHANGED <<logic, vecs>>

And(t) ==
    /\ nops < MaxOps
    /\ r' = VecAnd(logic, vecs[t], vecs[Other(t)])
    /\ last' = Call("And", t, 0, Unknown, vecs[t], FALSE)
    /\ nops' = nops + 1
    /\ UNCHANGED <<logic, vecs>>

Or(t) ==
    /\ nops < MaxOps
    /\ r' = VecOr(logic, vecs[t], vecs[Other(t)])
    /\ last' = Call("Or", t, 0, Unknown, vecs[t], FALSE)
    /\ nops' = nops + 1
    /\ UNCHANGED <<logic, vecs>>

Implies(t) ==
    /\ nops < MaxOps
    /\ r' = VecImplies(logic, vecs[t], vecs[Other(t)])
    /\ last' = Call("Implies", t, 0, Unknown, vecs[t], FALSE)
    /\ nops' = nops + 1
    /\ UNCHANGED <<logic, vecs>>

Merge(t) ==
    /\ nops < MaxOps
    /\ logic = "Belnap"
    /\ r' = BelnapVec_Merge(vecs[t], vecs[Other(t)])
    /\ last' = Call("Merge", t, 0, Unknown, vecs[t], FALSE)
    /\ nops' = nops + 1
    /\ UNCHANGED <<logic, vecs>>

\* BelnapVecFromKleeneVec(t): r is the BelnapVec returned.
FromKleene(t) ==
    /\ nops < MaxOps
    /\ logic = "Kleene"
    /\ r' = BelnapVecFromKleeneVec(vecs[t])
    /\ last' = Call("FromKleene", t, 0, Unknown, vecs[t], FALSE)
    /\ nops' = nops + 1
    /\ UNCHANGED <<logic, vecs>>

\* t.ToKleeneVec(): r is the KleeneVec returned, and keeps its value when the
\* call returns nil, which last.err records.
ToKleene(t) ==
    /\ nops < MaxOps
    /\ logic = "Belnap"
    /\ LET res == BelnapVec_ToKleeneVec(vecs[t])
       IN  /\ r' = IF res.ok THEN res.vec ELSE r
           /\ last' = [Call("ToKleene", t, 0, Unknown, vecs[t], FALSE)
                          EXCEPT !.err = ~res.ok]
    /\ nops' = nops + 1
    /\ UNCHANGED <<logic, vecs>>

Next ==
    \E t \in Names :
        \/ New(t)
        \/ Set(t)
        \/ Truncate(t)
        \/ Resize(t)
        \/ Get(t)
        \/ Not(t)
        \/ And(t)
        \/ Or(t)
        \/ Implies(t)
        \/ Merge(t)
        \/ FromKleene(t)
        \/ ToKleene(t)

Spec == Init /\ [][Next]_vars

\* ------------------------------------------------------------ storage identity
\* The same client, with the backing arrays told apart.  Every vector carries
\* in arr the identity of the array its words slice points into; a write that
\* goes through one slice is seen by every vector whose slice is over the same
\* array.  Here the client also mutates the vector an operator returned.
ArrIds == 1 .. 4

Holders == {"a", "b", "r"}

WithArr(x, id) ==
    [width |-> x.width, words |-> x.words, spare |-> x.spare, arr |-> id]

\* The three vectors the client holds.
Objs == [n \in Holders |-> IF n = "r" THEN r ELSE vecs[n]]

Min(x, y) == IF x <= y THEN x ELSE y

\* An array no vector other than n points into.
FreshArr(o, n) ==
    CHOOSE id \in ArrIds :
        /\ \A m \in Holders \ {n} : o[m].arr # id
        /\ \A k \in ArrIds : (k < id) => (\E m \in Holders \ {n} : o[m].arr = k)

\* What a vector whose slice is over an array sees once the array holds
\* `backing`.
Sees(x, backing) ==
    LET n == Min(Len(x.words), Len(backing))
    IN  [x EXCEPT !.words = SubSeq(backing, 1, n),
                  !.spare = SubSeq(backing, n + 1, Len(backing))]

\* The vectors after a mutating call turned vector n into `after`.  append
\* past the capacity moves n's words to a new array; any other write lands in
\* n's array.
Mutated(o, n, after) ==
    LET before == o[n]
        moved == Len(after.words) > Len(before.words) + Len(before.spare)
        backing == after.words \o after.spare
    IN  [m \in Holders |->
            IF m = n
              THEN IF moved THEN [after EXCEPT !.arr = FreshArr(o, n)] ELSE after
            ELSE IF ~moved /\ o[m].arr = before.arr
              THEN Sees(o[m], backing)
              ELSE o[m]]

\* Variant: the operator writes its result over the receiver's array.
ResultArr_Receiver(o, recv) == o[recv].arr

\* out := make([]uint64, ...): the array an operator's result is built in.
ResultArr(o, recv) == FreshArr(o, "r")

\* The vectors after an operator called on receiver recv returned x.
Returned(o, recv, x) ==
    LET id == ResultArr(o, recv)
    IN  [m \in Holders |->
            IF m = "r"
              THEN WithArr(x, id)
            ELSE IF o[m].arr = id
              THEN Sees(o[m], x.words)
              ELSE o[m]]

AliasWidths == {1, bitsMask + 2}

AliasIndices == {0, bitsMask + 1}

AliasCall(op, t, arg, pre, panicked) ==
    [op |-> op, tgt |-> t, arg |-> arg, pre |-> pre, panicked |-> panicked]

AliasInit ==
    /\ logic \in {"Kleene", "Belnap"}
    /\ vecs = [a |-> WithArr(Construct(logic, "New", 0), 1),
               b |-> WithArr(Construct(logic, "New", 0), 2)]
    /\ r = WithArr(Construct(logic, "New", 0), 3)
    /\ last = AliasCall("none", "a", "a", Objs, FALSE)
    /\ nops = 0

\* The client's variables hold the vectors o after call c.
Holds(o, c) ==
    /\ vecs' = [a |-> o["a"], b |-> o["b"]]
    /\ r' = o["r"]
    /\ last' = c
    /\ nops' = nops + 1
    /\ UNCHANGED logic

AliasSet(n) ==
    /\ nops < MaxOps
    /\ \E i \in AliasIndices, val \in {True, False} :
          LET res == VecSet(logic, Objs[n], i, val)
          IN  Holds(Mutated(Objs, n, res.vec),
                    AliasCall("Set", n, n, Objs, res.panicked))

AliasTruncate(n) ==
    /\ nops < MaxOps
    /\ \E w \in {0, 1} :
          LET res == VecTruncate(logic, Objs[n], w)
          IN  Holds(Mutated(Objs, n, res.vec),
                    AliasCall("Truncate", n, n, Objs, res.panicked))

AliasResize(n) ==
    /\ nops < MaxOps
    /\ \E w \in AliasWidths, fill \in {Unknown, True} :
          LET res == VecResize(logic, Objs[n], w, fill)
          IN  Holds(Mutated(Objs, n, res.vec),
                    AliasCall("Resize", n, n, Objs, res.panicked))

AliasNot(x) ==
    /\ nops < MaxOps
    /\ Holds(Returned(Objs, x, VecNot(logic, Objs[x])),
             AliasCall("Not", x, x, Objs, FALSE))

\* x.And(y), x.Or(y), x.Implies(y), x.Merge(y), y being x itself or the other
\* vector.
AliasBinary(x) ==
    /\ nops < MaxOps
    /\ \E y \in Names, op \in {"And", "Or", "Implies", "Merge"} :
          /\ op = "Merge" => logic = "Belnap"
          /\ LET res == CASE op = "And" -> VecAnd(logic, Objs[x], Objs[y])
                          [] op = "Or" -> VecOr(logic, Objs[x], Objs[y])
                          [] op = "Implies" -> VecImplies(logic, Objs[x], Objs[y])
                          [] op = "Merge" -> BelnapVec_Merge(Objs[x], Objs[y])
             IN  Holds(Returned(Objs, x, res), AliasCall(op, x, y, Objs, FALSE))

AliasNext ==
    \/ \E n \in Holders : AliasSet(n) \/ AliasTruncate(n) \/ AliasResize(n)
    \/ \E x \in Names : AliasNot(x) \/ AliasBinary(x)

AliasSpec == AliasInit /\ [][AliasNext]_vars

\* -------------------------------------------------------------- scalar client
\* A client of the scalar types: it holds two values of one type, the Kleene
\* of package kleene or the four-valued Value, in vecs["a"] and vecs["b"],
\* applies the type's operators to them, and keeps the value returned in r.
ScalarTypes == {"Kleene scalar", "Value scalar"}

ValuesOf(ty) == IF ty = "Kleene scalar" THEN Kleene ELSE Value

ScalarCall(op, x, y) == [op |-> op, x |-> x, y |-> y]

ScalarInit ==
    /\ logic \in ScalarTypes
    /\ vecs \in [Names -> ValuesOf(logic)]
    /\ r \in ValuesOf(logic)
    /\ last = ScalarCall("none", r, r)
    /\ nops = 0

ScalarNot(t) ==
    /\ nops < MaxOps
    /\ logic \in ScalarTypes
    /\ r' = IF logic = "Kleene scalar" THEN Kleene_Not(vecs[t]) ELSE ValueNot(vecs[t])
    /\ last' = ScalarCall("Not", vecs[t], vecs[t])
    /\ nops' = nops + 1
    /\ UNCHANGED <<logic, vecs>>

ScalarAnd(t) ==
    /\ nops < MaxOps
    /\ logic \in ScalarTypes
    /\ r' = IF logic = "Kleene scalar"
              THEN Kleene_And(vecs[t], vecs[Other(t)])
              ELSE ValueAnd(vecs[t], vecs[Other(t)])
    /\ last' = ScalarCall("And", vecs[t], vecs[Other(t)])
    /\ nops' = nops + 1
    /\ UNCHANGED <<logic, vecs>>

ScalarOr(t) ==
    /\ nops < MaxOps
    /\ logic \in ScalarTypes
    /\ r' = IF logic = "Kleene scalar"
              THEN Kleene_Or(vecs[t], vecs[Other(t)])
              ELSE ValueOr(vecs[t], vecs[Other(t)])
    /\ last' = ScalarCall("Or", vecs[t], vecs[Other(t)])
    /\ nops' = nops + 1
    /\ UNCHANGED <<logic, vecs>>

ScalarImplies(t) ==
    /\ nops < MaxOps
    /\ logic \in ScalarTypes
    /\ r' = IF logic = "Kleene scalar"
              THEN Kleene_Implies(vecs[t], vecs[Other(t)])
              ELSE ValueImplies(vecs[t], vecs[Other(t)])
    /\ last' = ScalarCall("Implies", vecs[t], vecs[Other(t)])
    /\ nops' = nops + 1
    /\ UNCHANGED <<logic, vecs>>

ScalarMerge(t) ==
    /\ nops < MaxOps
    /\ logic = "Value scalar"
    /\ r' = ValueMerge(vecs[t], vecs[Other(t)])
    /\ last' = ScalarCall("Merge", vecs[t], vecs[Other(t)])
    /\ nops' = nops + 1
    /\ UNCHANGED <<logic, vecs>>

\* One of the classification methods of Value, called on an operand; last
\* keeps what it returned.
ScalarQuery(t) ==
    /\ nops < MaxOps
    /\ logic = "Value scalar"
    /\ \E q \in {"IsKnown", "HasInfo", "IsDetermined", "IsContradicted", "ToBool"} :
          last' = [op |-> q, x |-> vecs[t], y |-> vecs[t],
                   ret |-> CASE q = "IsKnown" -> ValueIsKnown(vecs[t])
                             [] q = "HasInfo" -> HasInfo(vecs[t])
                             [] q = "IsDetermined" -> ValueIsDetermined(vecs[t])
                             [] q = "IsContradicted" -> ValueIsContradicted(vecs[t])
                             [] q = "ToBool" -> ValueToBool(vecs[t])]
    /\ nops' = nops + 1
    /\ UNCHANGED <<logic, vecs, r>>

\* The client stores the value returned in one of its two operands.
ScalarStore(t) ==
    /\ nops < MaxOps
    /\ logic \in ScalarTypes
    /\ vecs' = [vecs EXCEPT ![t] = r]
    /\ last' = ScalarCall("Store", r, r)
    /\ nops' = nops + 1
    /\ UNCHANGED <<logic, r>>

ScalarNext ==
    \E t \in Names :
        \/ ScalarNot(t)
        \/ ScalarAnd(t)
        \/ ScalarOr(t)
        \/ ScalarImplies(t)
        \/ ScalarMerge(t)
        \/ ScalarQuery(t)
        \/ ScalarStore(t)

ScalarSpec == ScalarInit /\ [][ScalarNext]_vars

\* ------------------------------------------------------- either kind of client
\* A client of the vector types or a client of the scalar types.
VectorTypes == {"Kleene", "Belnap"}

AlgebraNext ==
    \/ logic \in VectorTypes /\ Next
    \/ logic \in ScalarTypes /\ ScalarNext

AlgebraSpec == (Init \/ ScalarInit) /\ [][AlgebraNext]_vars

\* ---------------------------------------------------------------- word client
\* A caller of the four word functions.  vecs holds two word pairs <<pos, neg>>
\* and r the pair returned last.  The words are drawn from WordSamples, in
\* which every combination of four bits occurs at bit 0 and at bit 1, next to
\* neighbouring bits that differ from pair to pair.
WordSamples ==
    {{}, AllOnes, {0, bitsMask}, {k \in AllOnes : k % 2 = 0}}

WordPairs == WordSamples \X WordSamples

WordCall(op, x, y) == [op |-> op, x |-> x, y |-> y]

WordInit ==
    /\ logic = "words"
    /\ vecs \in [Names -> WordPairs]
    /\ r = <<{}, {}>>
    /\ last = WordCall("none", r, r)
    /\ nops = 0

WordAnd(t) ==
    /\ nops < MaxOps
    /\ logic = "words"
    /\ r' = andWord(vecs[t][1], vecs[t][2], vecs[Other(t)][1], vecs[Other(t)][2])
    /\ last' = WordCall("andWord", vecs[t], vecs[Other(t)])
    /\ nops' = nops + 1
    /\ UNCHANGED <<logic, vecs>>

WordOr(t) ==
    /\ nops < MaxOps
    /\ logic = "words"
    /\ r' = orWord(vecs[t][1], vecs[t][2], vecs[Other(t)][1], vecs[Other(t)][2])
    /\ last' = WordCall("orWord", vecs[t], vecs[Other(t)])
    /\ nops' = nops + 1
    /\ UNCHANGED <<logic, vecs>>

WordMerge(t) ==
    /\ nops < MaxOps
    /\ logic = "words"
    /\ r' = mergeWord(vecs[t][1], vecs[t][2], vecs[Other(t)][1], vecs[Other(t)][2])
    /\ last' = WordCall("mergeWord", vecs[t], vecs[Other(t)])
    /\ nops' = nops + 1
    /\ UNCHANGED <<logic, vecs>>

WordNot(t) ==
    /\ nops < MaxOps
    /\ logic = "words"
    /\ r' = notWord(vecs[t][1], vecs[t][2])
    /\ last' = WordCall("notWord", vecs[t], vecs[t])
    /\ nops' = nops + 1
    /\ UNCHANGED <<logic, vecs>>

\* The caller keeps the pair returned as one of its two operands.
WordStore(t) ==
    /\ nops < MaxOps
    /\ logic = "words"
    /\ vecs' = [vecs EXCEPT ![t] = r]
    /\ last' = WordCall("Store", r, r)
    /\ nops' = nops + 1
    /\ UNCHANGED <<logic, r>>

WordNext ==
    \E t \in Names :
        \/ WordAnd(t)
        \/ WordOr(t)
        \/ WordMerge(t)
        \/ WordNot(t)
        \/ WordStore(t)

WordSpec == WordInit /\ [][WordNext]_vars

\* ------------------------------------------------------------ shrink and grow
\* One vector "a", constructed with any of the constructors, then shrunk and
\* grown by Set, Truncate and Resize.  r keeps the history the calls
\* themselves do not: whether the vector was ever shrunk, and the vector as it
\* was before the latest shrink.
Shrunk(before, res) ==
    IF ~res.panicked /\ res.vec.width < before.width
      THEN [shrunk |-> TRUE, from |-> before]
      ELSE r

ShrinkInit ==
    /\ logic \in {"Kleene", "Belnap"}
    /\ \E kind \in {"New", "AllTrue", "AllFalse"}, w \in Widths :
          vecs = [t \in Names |-> IF t = "a" THEN Construct(logic, kind, w)
                                             ELSE Construct(logic, "New", 0)]
    /\ r = [shrunk |-> FALSE, from |-> vecs["a"]]
    /\ last = NoCall
    /\ nops = 0

ShrinkSet ==
    /\ nops < MaxOps
    /\ \E i \in Indices, val \in Value :
          LET res == VecSet(logic, vecs["a"], i, val)
          IN  /\ vecs' = [vecs EXCEPT !["a"] = res.vec]
              /\ last' = Call("Set", "a", i, val, vecs["a"], res.panicked)
    /\ nops' = nops + 1
    /\ UNCHANGED <<logic, r>>

ShrinkTruncate ==
    /\ nops < MaxOps
    /\ \E w \in Widths :
          LET res == VecTruncate(logic, vecs["a"], w)
          IN  /\ vecs' = [vecs EXCEPT !["a"] = res.vec]
              /\ last' = Call("Truncate", "a", w, Unknown, vecs["a"], res.panicked)
              /\ r' = Shrunk(vecs["a"], res)
    /\ nops' = nops + 1
    /\ UNCHANGED logic

ShrinkResize ==
    /\ nops < MaxOps
    /\ \E w \in Widths, fill \in Value :
          LET res == VecResize(logic, vecs["a"], w, fill)
          IN  /\ vecs' = [vecs EXCEPT !["a"] = res.vec]
              /\ last' = Call("Resize", "a", w, fill, vecs["a"], res.panicked)
              /\ r' = Shrunk(vecs["a"], res)
    /\ nops' = nops + 1
    /\ UNCHANGED logic

ShrinkNext == ShrinkSet \/ ShrinkTruncate \/ ShrinkResize

ShrinkSpec == ShrinkInit /\ [][ShrinkNext]_vars

\* --------------------------------------------------- arbitrary integer arguments
\* One vector "a" whose constructors, Set, Truncate and Resize are called with
\* widths and indices of either sign, on either side of a word boundary.
ArgWidths == {-(bitsMask + 2), -(bitsMask + 1), -1, 0, 1, bitsMask + 2}

\* make([]uint64, n) panics when n is negative.
MakePanics(n) == n < 0

\* A constructor call; when make panics no vector is returned and "a" stays
\* the vector it was.
ArgNew ==
    /\ nops < MaxOps
    /\ \E kind \in {"New", "AllTrue", "AllFalse"}, w \in ArgWidths :
          LET panics == MakePanics(2 * wordsNeeded(w))
          IN  /\ vecs' = IF panics
                           THEN vecs
                           ELSE [vecs EXCEPT !["a"] = Construct(logic, kind, w)]
              /\ last' = Call(kind, "a", w, Unknown, vecs["a"], panics)
    /\ nops' = nops + 1
    /\ UNCHANGED <<logic, r>>

ArgSet ==
    /\ nops < MaxOps
    /\ \E i \in {-1, 0, bitsMask + 1}, val \in Value :
          LET res == VecSet(logic, vecs["a"], i, val)
          IN  /\ vecs' = [vecs EXCEPT !["a"] = res.vec]
              /\ last' = Call("Set", "a", i, val, vecs["a"], res.panicked)
    /\ nops' = nops + 1
    /\ UNCHANGED <<logic, r>>

ArgTruncate ==
    /\ nops < MaxOps
    /\ \E w \in ArgWidths :
          LET res == VecTruncate(logic, vecs["a"], w)
          IN  /\ vecs' = [vecs EXCEPT !["a"] = res.vec]
              /\ last' = Call("Truncate", "a", w, Unknown, vecs["a"], res.panicked)
    /\ nops' = nops + 1
    /\ UNCHANGED <<logic, r>>

ArgResize ==
    /\ nops < MaxOps
    /\ \E w \in ArgWidths, fill \in Value :
          LET res == VecResize(logic, vecs["a"], w, fill)
          IN  /\ vecs' = [vecs EXCEPT !["a"] = res.vec]
              /\ last' = Call("Resize", "a", w, fill, vecs["a"], res.panicked)
    /\ nops' = nops + 1
    /\ UNCHANGED <<logic, r>>

ArgNext == ArgNew \/ ArgSet \/ ArgTruncate \/ ArgResize

ArgSpec == Init /\ [][ArgNext]_vars

\* ------------------------------------------------------------- int arithmetic
\* Go's int on a 64-bit platform: a value is its two's complement bit pattern,
\* written as four 16-bit limbs, least significant first.  wordsNeeded and
\* tailMask above are these functions on the widths the vector clients use,
\* where n + bitsMask does not wrap.
Limb == 2 ^ 16

\* math.MaxInt
MaxInt == <<Limb - 1, Limb - 1, Limb - 1, (Limb \div 2) - 1>>

\* The int of value k, 0 <= k < 2^31.
IntOfNat(k) == <<k % Limb, k \div Limb, 0, 0>>

\* The sign bit.
IsNegative(x) == x[4] >= Limb \div 2

\* x + c for 0 <= c < Limb, wrapping around at 2^64.
Add64(x, c) ==
    LET s1 == x[1] + c
        s2 == x[2] + (s1 \div Limb)
        s3 == x[3] + (s2 \div Limb)
        s4 == x[4] + (s3 \div Limb)
    IN  <<s1 % Limb, s2 % Limb, s3 % Limb, s4 % Limb>>

\* x >> s on a signed int for 0 < s < 16: the sign bit is shifted in.
Sar64(x, s) ==
    LET lo == 2 ^ s
        hi == Limb \div lo
        sign == IF IsNegative(x) THEN lo - 1 ELSE 0
    IN  <<(x[1] \div lo) + (x[2] % lo) * hi,
          (x[2] \div lo) + (x[3] % lo) * hi,
          (x[3] \div lo) + (x[4] % lo) * hi,
          (x[4] \div lo) + sign * hi>>

\* wordsNeeded on every int.
wordsNeededInt64(n) == Sar64(Add64(n, bitsMask), bitsLog2)

\* tailMask on every int: r := n & bitsMask reads the low bits of the lowest
\* limb.
tailMaskInt64(n) == tailMask(n[1] % (bitsMask + 1))

\* The arguments: the ints 0 .. 129 and the 130 largest ints.
ArithOffsets == 0 .. (2 * bitsMask + 3)

ArithInts ==
    {IntOfNat(k) : k \in ArithOffsets}
        \cup {<<MaxInt[1] - k, MaxInt[2], MaxInt[3], MaxInt[4]>> : k \in ArithOffsets}

ArithCall(op, n) == [op |-> op, x |-> n, y |-> n]

\* A caller of wordsNeeded and tailMask with the argument vecs["a"]; r is what
\* the last call returned.
ArithInit ==
    /\ logic = "int"
    /\ \E n \in ArithInts : vecs = [t \in Names |-> n]
    /\ r = IntOfNat(0)
    /\ last = ArithCall("none", IntOfNat(0))
    /\ nops = 0

ArithWordsNeeded ==
    /\ nops < MaxOps
    /\ r' = wordsNeededInt64(vecs["a"])
    /\ last' = ArithCall("wordsNeeded", vecs["a"])
    /\ nops' = nops + 1
    /\ UNCHANGED <<logic, vecs>>

ArithTailMask ==
    /\ nops < MaxOps
    /\ r' = tailMaskInt64(vecs["a"])
    /\ last' = ArithCall("tailMask", vecs["a"])
    /\ nops' = nops + 1
    /\ UNCHANGED <<logic, vecs>>

ArithNext == ArithWordsNeeded \/ ArithTailMask

ArithSpec == ArithInit /\ [][ArithNext]_vars

\* ------------------------------------------------------------ Pinboard client
\* One Client used by one caller.  Times are in seconds.  vecs holds the
\* three time fields of the Client, r the clock, last the request sent last
\* and, per endpoint, the time its latest request was sent.
RateLimit == 3
PostsAllRate == 300
PostsRecentRate == 60

\* backoff := 5 * time.Second
Backoff == 5

\* The zero time.Time a new Client's fields hold: it lies further back from
\* any reading of the clock than every rate.
ZeroTime == -(2 * PostsAllRate)

Endpoints == {"posts/all", "posts/recent", "user/api_token"}

\* What httpClient.Do returns: a status code, or an error.
Responses == {"200", "429", "500", "error"}

\* Seconds between the return of one call and the start of the next.
Delays == {0, 1, RateLimit, PostsRecentRate, PostsAllRate}

NewClient ==
    [lastRequest |-> ZeroTime, postsAllLast |-> ZeroTime, postsRecentLast |-> ZeroTime]

\* time.Sleep(rate - elapsed) when elapsed < rate: the time at which the
\* sleep that starts at clock ends.
SleepUntil(clock, now, since, rate) ==
    IF now - since < rate THEN clock + (rate - (now - since)) ELSE clock

\* c.rateLimit(endpoint) entered at time clock: the Client after it and the
\* time at which it returns.
Client_rateLimit(c, clock, endpoint) ==
    LET now == clock
        t1 == CASE endpoint = "posts/all" ->
                      SleepUntil(clock, now, c.postsAllLast, PostsAllRate)
                 [] endpoint = "posts/recent" ->
                      SleepUntil(clock, now, c.postsRecentLast, PostsRecentRate)
                 [] OTHER -> clock
        c1 == CASE endpoint = "posts/all" -> [c EXCEPT !.postsAllLast = now]
                 [] endpoint = "posts/recent" -> [c EXCEPT !.postsRecentLast = now]
                 [] OTHER -> c
        t2 == SleepUntil(t1, now, c1.lastRequest, RateLimit)
    IN  [c |-> [c1 EXCEPT !.lastRequest = t2], ret |-> t2]

ClientInit ==
    /\ logic = "pinboard"
    /\ vecs = NewClient
    /\ r = 0
    /\ last = [op |-> "none", endpoint |-> "user/api_token", sent |-> ZeroTime,
               prev |-> ZeroTime, status |-> "200",
               sends |-> [e \in Endpoints |-> ZeroTime]]
    /\ nops = 0

\* rateLimit, then the request is sent and answered with status.
Send(op, clock, endpoint, status) ==
    LET rl == Client_rateLimit(vecs, clock, endpoint)
    IN  /\ vecs' = rl.c
        /\ r' = rl.ret
        /\ last' = [op |-> op, endpoint |-> endpoint, sent |-> rl.ret,
                    prev |-> last.sends[endpoint], status |-> status,
                    sends |-> [last.sends EXCEPT ![endpoint] = rl.ret]]
        /\ nops' = nops + 1
        /\ UNCHANGED logic

\* The caller calls makeRequest, some time after the previous call returned.
MakeRequest ==
    /\ nops < MaxOps
    /\ logic = "pinboard"
    /\ last.status # "429"
    /\ \E endpoint \in Endpoints, d \in Delays, status \in Responses :
          Send("makeRequest", r + d, endpoint, status)

\* After a 429 and the backoff, makeRequest calls itself.
Retry ==
    /\ nops < MaxOps
    /\ logic = "pinboard"
    /\ last.status = "429"
    /\ \E status \in Responses : Send("retry", r + Backoff, last.endpoint, status)

\* After a 429, ctx is done before the backoff ends: makeRequest returns
\* ctx.Err().
Cancel ==
    /\ logic = "pinboard"
    /\ last.status = "429"
    /\ last' = [last EXCEPT !.op = "cancel", !.status = "error"]
    /\ UNCHANGED <<logic, vecs, r, nops>>

ClientNext == MakeRequest \/ Retry \/ Cancel

ClientSpec == ClientInit /\ [][ClientNext]_vars

\* --------------------------------------------------------- concurrent operators
\* Two threads call operators on the shared vectors vecs["a"] and vecs["b"];
\* nothing calls Set, Truncate or Resize.  A step of a thread is one read or
\* one write of a word, and the steps of the two threads interleave in any
\* order.  r holds the threads: pc, the operator called (op) and the loop
\* running (cur, Not and then Or for Implies), the operands recv and arg, the
\* vectors x and y the loop reads ("tmp" is the thread's own v.Not()), the
\* loop counter i, the position k inside the loop body, the four words read,
\* the slice out, and the vector returned.  last.pre keeps the operands as
\* they were at the start.
Threads == {"t1", "t2"}

Idle ==
    [pc |-> "idle", op |-> "none", cur |-> "none", recv |-> "a", arg |-> "a",
     x |-> "a", y |-> "a", dst |-> "out", width |-> 0, n |-> 0, i |-> 0, k |-> 0,
     regs |-> <<{}, {}, {}, {}>>, out |-> <<>>, tmp |-> NewBelnapVec(0),
     res |-> NewBelnapVec(0), overlapped |-> FALSE]

\* The vector a thread reads under the name src.
Operand(th, src) == IF src \in Names THEN vecs[src] ELSE th.tmp

\* Variant: the operator works in place, on the words of its receiver.
OutArray_Receiver(x) == x

\* out := make([]uint64, ...): the loop writes to a slice of its own.
OutArray(x) == "out"

\* The words behind the name loc, for a thread.
WordsAt(th, loc) ==
    CASE loc = "out" -> th.out
      [] loc = "tmp" -> th.tmp.words
      [] OTHER -> vecs[loc].words

\* A thread enters the loop cur on x and y: the width, the number of word
\* pairs and the slice out are computed from the operands' headers.
Enter(th, cur, x, y) ==
    LET vx == Operand(th, x)
        vy == Operand(th, y)
        width == IF cur = "Not" THEN vx.width ELSE Max(vx.width, vy.width)
        n == IF cur = "Not" THEN Len(vx.words) \div 2 ELSE wordsNeeded(width)
    IN  [th EXCEPT !.pc = IF n = 0 THEN "ret" ELSE "loop",
                   !.cur = cur, !.x = x, !.y = y, !.dst = OutArray(x),
                   !.width = width, !.n = n, !.i = 0, !.k = 0,
                   !.out = MakeWords(2 * n)]

ConcInit ==
    /\ logic \in {"Kleene", "Belnap"}
    /\ \E kb \in {"AllTrue", "AllFalse"}, wb \in {1, bitsMask + 2} :
          vecs = [t \in Names |-> IF t = "a" THEN Construct(logic, "AllTrue", bitsMask + 2)
                                             ELSE Construct(logic, kb, wb)]
    /\ r = [t \in Threads |-> Idle]
    /\ last = [NoCall EXCEPT !.pre = vecs]
    /\ nops = 0

\* A thread calls an operator on the shared vectors.
ConcCall(t) ==
    /\ r[t].pc = "idle"
    /\ \E op \in {"Not", "And", "Or", "Implies"}
                   \cup (IF logic = "Belnap" THEN {"Merge"} ELSE {}),
          x \in Names, y \in Names :
          r' = [r EXCEPT ![t] =
                   Enter([r[t] EXCEPT !.op = op, !.recv = x, !.arg = y],
                         IF op = "Implies" THEN "Not" ELSE op, x, y)]
    /\ UNCHANGED <<logic, vecs, last, nops>>

\* One read of the loop body: v.words[base], v.words[base+1],
\* other.words[base], other.words[base+1] in turn (a word the operand does
\* not have is taken as 0); Not reads the receiver's two words only.
ConcRead(t) ==
    /\ r[t].pc = "loop"
    /\ r[t].k < 4
    /\ LET th == r[t]
           src == IF th.k < 2 THEN th.x ELSE th.y
           ws == WordsAt(th, src)
           base == 2 * th.i
           w == IF base + 1 < Len(ws) THEN At(ws, base + (th.k % 2)) ELSE {}
       IN  r' = [r EXCEPT ![t] =
                    [th EXCEPT !.regs = [th.regs EXCEPT ![th.k + 1] = w],
                               !.k = IF th.cur = "Not" /\ th.k = 1 THEN 4 ELSE th.k + 1,
                               !.overlapped = @ \/ \E u \in Threads \ {t} : r[u].pc = "loop"]]
    /\ UNCHANGED <<logic, vecs, last, nops>>

\* The word pair the loop cur computes from the words read.
LoopWord(cur, regs) ==
    CASE cur = "Not" -> notWord(regs[1], regs[2])
      [] cur = "And" -> andWord(regs[1], regs[2], regs[3], regs[4])
      [] cur = "Or" -> orWord(regs[1], regs[2], regs[3], regs[4])
      [] cur = "Merge" -> mergeWord(regs[1], regs[2], regs[3], regs[4])

\* One write of the loop body: out[base], then out[base+1]; after the second
\* the loop goes on to the next pair or ends.  A write outside the slice
\* written to panics and ends the thread.
ConcWrite(t) ==
    /\ r[t].pc = "loop"
    /\ r[t].k >= 4
    /\ LET th == r[t]
           idx == 2 * th.i + (th.k - 4)
           w == LoopWord(th.cur, th.regs)[th.k - 3]
           ws == WordsAt(th, th.dst)
           th1 == [th EXCEPT !.k = IF th.k = 4 THEN 5 ELSE 0,
                             !.i = IF th.k = 5 THEN th.i + 1 ELSE th.i,
                             !.pc = IF th.k = 5 /\ th.i + 1 = th.n THEN "ret" ELSE "loop",
                             !.overlapped = @ \/ \E u \in Threads \ {t} : r[u].pc = "loop"]
       IN  IF idx >= Len(ws)
             THEN /\ r' = [r EXCEPT ![t] = [th EXCEPT !.pc = "panicked"]]
                  /\ UNCHANGED vecs
           ELSE IF th.dst = "out"
             THEN /\ r' = [r EXCEPT ![t] = [th1 EXCEPT !.out = Put(ws, idx, w)]]
                  /\ UNCHANGED vecs
           ELSE IF th.dst = "tmp"
             THEN /\ r' = [r EXCEPT ![t] = [th1 EXCEPT !.tmp.words = Put(ws, idx, w)]]
                  /\ UNCHANGED vecs
             ELSE /\ r' = [r EXCEPT ![t] = th1]
                  /\ vecs' = [vecs EXCEPT ![th.dst].words = Put(ws, idx, w)]
    /\ UNCHANGED <<logic, last, nops>>

\* The loop is over: the vector over the slice written is built, Not masks its
\* tail, and it is returned; Implies goes on with Or on the vector its Not
\* returned.
ConcReturn(t) ==
    /\ r[t].pc = "ret"
    /\ LET th == r[t]
           built == [width |-> th.width, words |-> WordsAt(th, th.dst), spare |-> <<>>]
           res == IF th.cur = "Not"
                    THEN IF logic = "Kleene" THEN KleeneVec_maskTail(built)
                                             ELSE BelnapVec_maskTail(built)
                    ELSE built
       IN  /\ r' = [r EXCEPT ![t] =
                       IF th.op = "Implies" /\ th.cur = "Not"
                         THEN Enter([th EXCEPT !.tmp = res], "Or", "tmp", th.arg)
                         ELSE [th EXCEPT !.pc = "done", !.res = res]]
           /\ vecs' = IF th.dst \in Names
                        THEN [vecs EXCEPT ![th.dst].words = res.words]
                        ELSE vecs
    /\ UNCHANGED <<logic, last, nops>>

ConcNext ==
    \E t \in Threads :
        \/ ConcCall(t)
        \/ ConcRead(t)
        \/ ConcWrite(t)
        \/ ConcReturn(t)

ConcSpec == ConcInit /\ [][ConcNext]_vars

\* --------------------------------------------------------------------- claims
\* What the formulas read.  post is the receiver after the last call, pre the
\* receiver before it, other the second operand of a binary operator.
post == vecs[last.tgt]
pre == last.pre
other == vecs[Other(last.tgt)]

\* Get(i) as a client sees it: the pair [val, err].
Read(v, i) == VecGet(logic, v, i)

\* Get(i) returns x and no error.
Reads(v, i, x) ==
    LET g == VecGet(logic, v, i)
    IN  ~g.err /\ g.val = x

\* Get(i) returns ErrOutOfBounds.
OutOfBounds(v, i) == VecGet(logic, v, i).err

\* The value the two bit-planes encode at index i, read off the planes.
StoredValue(v, i) ==
    LET p == (i % 64) \in v.words[2 * (i \div 64) + 1]
        n == (i % 64) \in v.words[2 * (i \div 64) + 2]
    IN  CASE p /\ n -> Both
          [] p /\ ~n -> True
          [] ~p /\ n -> False
          [] OTHER -> Unknown

CeilDiv64(n) == IF n % 64 = 0 THEN n \div 64 ELSE (n \div 64) + 1

\* No bit of either plane is set at a position >= width.
TailClean(v) ==
    \A k \in 1 .. Len(v.words) :
        \A bit \in v.words[k] : 64 * ((k - 1) \div 2) + bit < v.width

ExactStore(v) == Len(v.words) = 2 * CeilDiv64(v.width)

Nonzero(ws) == \E k \in 1 .. Len(ws) : ws[k] # {}

\* C1: every vector (both receivers and the returned result) has no bit set at
\* a position >= Width() and a backing store of exactly 2*ceil(Width()/64) words.
C1_TailClean ==
    \A v \in {vecs["a"], vecs["b"], r} : TailClean(v) /\ ExactStore(v)

\* A binary operator returned a vector ending in a partial word, from operands
\* of different widths with bits set in that last word pair.
C1_Witness ==
    /\ last.op \in {"And", "Or", "Merge"}
    /\ post.width # other.width
    /\ r.width % 64 # 0
    /\ r.width > 64
    /\ Nonzero(SubSeq(r.words, Len(r.words) - 1, Len(r.words)))

ScalarOp(op, x, y) ==
    CASE op = "And" -> ValueAnd(x, y)
      [] op = "Or" -> ValueOr(x, y)
      [] op = "Merge" -> ValueMerge(x, y)
      [] op = "Implies" -> ValueImplies(x, y)

\* The operand's value at i, Unknown beyond its width.
Ext(v, i) == IF i < v.width THEN VecGet(logic, v, i).val ELSE Unknown

\* C2: And/Or/Merge return a vector of width max(a.Width(), b.Width()) holding
\* at every index the scalar operator of the operands' values, an operand
\* counting as Unknown beyond its width.
C2_MismatchedWidthPolicy ==
    last.op \in {"And", "Or", "Merge"} =>
        /\ r.width = Max(post.width, other.width)
        /\ \A i \in 0 .. (r.width - 1) :
              Reads(r, i, ScalarOp(last.op, Ext(post, i), Ext(other, i)))

\* A shorter receiver holding Both meets a longer operand that has information
\* beyond the receiver's width, in the receiver's last word and in a later one.
C2_Witness ==
    /\ last.op = "And"
    /\ post.width = 1
    /\ other.width = 65
    /\ Reads(post, 0, Both)
    /\ Reads(other, 0, True)
    /\ Reads(other, 1, True)
    /\ Reads(other, 64, True)
    /\ Reads(r, 0, Both)
    /\ Reads(r, 1, Unknown)

BinOp(op, x, y) ==
    CASE op = "And" -> VecAnd(logic, x, y)
      [] op = "Or" -> VecOr(logic, x, y)
      [] op = "Merge" -> BelnapVec_Merge(x, y)

\* C3: And, Or and Merge give the same width and the same bit-planes in either
\* operand order.
C3_Commutative ==
    last.op \in {"And", "Or", "Merge"} =>
        LET swapped == BinOp(last.op, other, post)
        IN  /\ r.width = swapped.width
            /\ r.words = swapped.words

\* The operator ran with the shorter vector as receiver on operands of
\* different word counts that both hold information.
C3_Witness ==
    /\ last.op \in {"And", "Or", "Merge"}
    /\ post.width = 1
    /\ other.width = 65
    /\ Nonzero(post.words)
    /\ Nonzero(other.words)
    /\ Nonzero(r.words)

\* C4: Set(i, x) with i >= Width() gives width i+1, x at i, Unknown at every
\* index between the old width and i, and leaves the indices below the old
\* width as they were.
C4_AutoGrow ==
    (last.op = "Set" /\ ~last.panicked /\ last.i >= pre.width) =>
        /\ post.width = last.i + 1
        /\ Reads(post, last.i, last.val)
        /\ \A j \in pre.width .. (last.i - 1) : Reads(post, j, Unknown)
        /\ \A j \in 0 .. (pre.width - 1) : Read(post, j) = Read(pre, j)

\* Set grew a vector inside its last word after a Truncate had cut off words
\* that held information.
C4_Witness ==
    /\ last.op = "Set"
    /\ ~last.panicked
    /\ pre.width = 1
    /\ last.i = 63
    /\ Nonzero(pre.spare)
    /\ ~Reads(pre, 0, Unknown)
    /\ post.width = 64

\* C5: Set(i, x) with 0 <= i < Width() keeps the width, stores x at i and leaves
\* every other index as it was.
C5_InRangeSetLocal ==
    (last.op = "Set" /\ ~last.panicked /\ last.i >= 0 /\ last.i < pre.width) =>
        /\ post.width = pre.width
        /\ Reads(post, last.i, last.val)
        /\ \A j \in 0 .. (pre.width - 1) :
              j # last.i => Read(post, j) = Read(pre, j)

\* Index 64 was overwritten while its neighbours 63 and 65, across the word
\* boundary and next to it, held information.
C5_Witness ==
    /\ last.op = "Set"
    /\ last.i = 64
    /\ pre.width = 66
    /\ ~Reads(pre, 63, Unknown)
    /\ ~Reads(pre, 65, Unknown)
    /\ Read(post, 64) # Read(pre, 64)

\* C6: Get(i) reports ErrOutOfBounds exactly when i < 0 or i >= Width(), returns
\* the value the planes hold otherwise, and leaves the vector as it was.
C6_GetBounds ==
    last.op = "Get" =>
        /\ last.err <=> (last.i < 0 \/ last.i >= pre.width)
        /\ ~last.err => last.ret = StoredValue(pre, last.i)
        /\ post = pre

\* Get was called with i = Width() on a vector ending on a word boundary.
C6_Witness ==
    /\ last.op = "Get"
    /\ last.i = pre.width
    /\ pre.width = 64
    /\ last.err

\* C7: Set with a negative index panics and leaves the vector as it was.
C7_SetNegativePanics ==
    (last.op = "Set" /\ last.i < 0) =>
        /\ last.panicked
        /\ post = pre

\* Set(-1, x) was called on a vector that holds information.
C7_Witness ==
    /\ last.op = "Set"
    /\ last.i < 0
    /\ last.val # Unknown
    /\ pre.width > 0
    /\ Nonzero(pre.words)

\* C8: on a KleeneVec, Set(i, Both) with i >= 0 panics and leaves the vector as
\* it was (not grown); on a BelnapVec, Set with i >= 0 accepts every value.
C8_KleeneSetBoth ==
    (last.op = "Set" /\ last.i >= 0) =>
        IF logic = "Kleene" /\ last.val = Both
          THEN last.panicked /\ post = pre
          ELSE ~last.panicked /\ Reads(post, last.i, last.val)

\* Set(i, Both) was called on a KleeneVec with i beyond the width.
C8_Witness ==
    /\ logic = "Kleene"
    /\ last.op = "Set"
    /\ last.val = Both
    /\ last.i > pre.width
    /\ pre.width > 0

\* C9: Resize(newWidth, fill) with newWidth > Width() and a legal fill gives
\* width newWidth, fill at every index from the old width on, and leaves the
\* indices below the old width as they were.
C9_ResizeGrowth ==
    (last.op = "Resize" /\ ~last.panicked /\ last.i > pre.width) =>
        /\ post.width = last.i
        /\ \A j \in 0 .. (pre.width - 1) : Read(post, j) = Read(pre, j)
        /\ \A j \in pre.width .. (last.i - 1) : Reads(post, j, last.val)

\* Resize grew a vector from inside its last word into a new word, reusing
\* capacity a Truncate had left holding information.
C9_Witness ==
    /\ last.op = "Resize"
    /\ ~last.panicked
    /\ pre.width = 63
    /\ last.i = 65
    /\ last.val # Unknown
    /\ Nonzero(pre.spare)
    /\ ~Reads(pre, 0, last.val)

\* C10: Truncate(newWidth) with newWidth >= Width() changes nothing; with
\* 0 <= newWidth < Width() it gives width newWidth, leaves the indices below
\* it as they were, puts the others out of bounds, and leaves exactly
\* 2*ceil(newWidth/64) words with no bit set at a position >= newWidth.
C10_Truncate ==
    (last.op = "Truncate" /\ last.i >= 0) =>
        IF last.i >= pre.width
          THEN post = pre /\ ~last.panicked
          ELSE /\ ~last.panicked
               /\ post.width = last.i
               /\ \A j \in 0 .. (last.i - 1) : Read(post, j) = Read(pre, j)
               /\ \A j \in last.i .. pre.width : OutOfBounds(post, j)
               /\ ExactStore(post)
               /\ TailClean(post)

\* Truncate cut a two-word vector back into its first word, below bits that
\* were set.
C10_Witness ==
    /\ last.op = "Truncate"
    /\ pre.width = 65
    /\ last.i = 63
    /\ Reads(pre, 63, Both)
    /\ Reads(pre, 64, Both)
    /\ post.width = 63

\* The fills a vector type accepts: every Value on a BelnapVec, every Value but
\* Both on a KleeneVec.
LegalFill(x) == logic = "Kleene" => x # Both

Operators == {"Not", "And", "Or", "Implies", "Merge"}

Mutators == {"Set", "Truncate", "Resize"}

\* C12 (under AliasSpec): an operator leaves both operands as they were, width
\* and words, and returns a vector over an array neither operand points into;
\* a mutating call on one vector, the returned one included, leaves the other
\* two as they were; no two vectors are ever over the same array.
C12_OperandsUnmodified ==
    /\ last.op \in Operators =>
          /\ Objs["a"] = last.pre["a"]
          /\ Objs["b"] = last.pre["b"]
          /\ Objs["r"].arr \notin {Objs["a"].arr, Objs["b"].arr}
    /\ last.op \in Mutators =>
          \A m \in Holders \ {last.tgt} : Objs[m] = last.pre[m]
    /\ \A m, n \in Holders : m # n => Objs[m].arr # Objs[n].arr

\* The client changed index 0 of a two-word vector that a Not, or an operator
\* applied to a vector and itself, had returned, the operand holding
\* information in both words.
C12_Witness ==
    /\ last.op = "Set"
    /\ last.tgt = "r"
    /\ ~last.panicked
    /\ Objs["a"].width = 65
    /\ Nonzero(SubSeq(Objs["a"].words, 1, 2))
    /\ Nonzero(SubSeq(Objs["a"].words, 3, 4))
    /\ last.pre["r"].words \in {VecNot(logic, Objs["a"]).words,
                                VecAnd(logic, Objs["a"], Objs["a"]).words}
    /\ Objs["r"].words # last.pre["r"].words

\* The vectors the client holds: both receivers and the last returned vector.
Held == {vecs["a"], vecs["b"], r}

\* The vector the last call constructed, wrote to or returned; before the
\* first call, any of the three empty vectors.  Every vector the client ever
\* holds is this vector in the state its call led to.
Latest ==
    IF last.op \in {"Not", "And", "Or", "Implies", "Merge", "FromKleene", "ToKleene"}
      THEN r
      ELSE post

\* What Get returns at each index of [0, Width()).
Contents(v) == [i \in 0 .. (v.width - 1) |-> VecGet(logic, v, i)]

\* The number of indices of the contents c at which Get returned x.
Holding(c, x) == Cardinality({i \in DOMAIN c : ~c[i].err /\ c[i].val = x})

\* C13: on every vector a call constructed, wrote to or returned, CountTrue,
\* CountFalse, CountUnknown (and CountBoth on a BelnapVec) equal the number of
\* indices at which Get returns that value; every count is >= 0 and the counts
\* add up to Width().
C13_ExactCounts ==
    \A v \in {Latest} :
        LET c == Contents(v)
            nTrue == VecCountTrue(logic, v)
            nFalse == VecCountFalse(logic, v)
            nUnknown == VecCountUnknown(logic, v)
        IN  /\ nTrue = Holding(c, True)
            /\ nFalse = Holding(c, False)
            /\ nUnknown = Holding(c, Unknown)
            /\ nUnknown >= 0
            /\ IF logic = "Belnap"
                 THEN LET nBoth == BelnapVec_CountBoth(v)
                      IN  /\ nBoth = Holding(c, Both)
                          /\ nTrue + nFalse + nUnknown + nBoth = v.width
                 ELSE nTrue + nFalse + nUnknown = v.width

\* A call wrote to a two-word BelnapVec that now holds True, False and Both,
\* with information in the second word.
C13_Witness ==
    /\ logic = "Belnap"
    /\ last.op = "Set"
    /\ Latest.width = 65
    /\ BelnapVec_CountTrue(Latest) > 0
    /\ BelnapVec_CountFalse(Latest) > 0
    /\ BelnapVec_CountBoth(Latest) > 0
    /\ ~Reads(Latest, 64, Unknown)

\* Get returned a value of the set xs at every index of the contents c.
Every(c, xs) == \A i \in DOMAIN c : ~c[i].err /\ c[i].val \in xs

\* C14: on every vector a call constructed, wrote to or returned, IsAllTrue()
\* holds iff Get is True at every index, IsAllFalse() iff it is False at every
\* index, IsAllKnown() / IsAllDetermined() iff it is True or False at every
\* index, and IsConsistent() (BelnapVec) iff it is Both at no index; all hold
\* at width 0.
C14_BoundaryExactQueries ==
    \A v \in {Latest} :
        LET c == Contents(v)
        IN  /\ VecIsAllTrue(logic, v) <=> Every(c, {True})
            /\ VecIsAllFalse(logic, v) <=> Every(c, {False})
            /\ VecIsAllDetermined(logic, v) <=> Every(c, {True, False})
            /\ logic = "Belnap" =>
                  (BelnapVec_IsConsistent(v) <=> Every(c, {Unknown, True, False}))
            /\ v.width = 0 =>
                  /\ VecIsAllTrue(logic, v)
                  /\ VecIsAllFalse(logic, v)
                  /\ VecIsAllDetermined(logic, v)
                  /\ logic = "Belnap" => BelnapVec_IsConsistent(v)

\* Not returned an all-True vector ending in a partial second word.
C14_Witness ==
    /\ last.op = "Not"
    /\ Latest.width = 65
    /\ VecIsAllTrue(logic, Latest)
    /\ VecIsAllDetermined(logic, Latest)
    /\ ~VecIsAllFalse(logic, Latest)

AndExpected ==
    << <<Unknown, Unknown, False, False>>,
       <<Unknown, True, False, Both>>,
       <<False, False, False, False>>,
       <<False, Both, False, Both>> >>

OrExpected ==
    << <<Unknown, True, Unknown, True>>,
       <<True, True, True, True>>,
       <<Unknown, True, False, Both>>,
       <<True, True, Both, Both>> >>

\* The position of a Value in the order Unknown, True, False, Both.
Row(x) ==
    CASE x = Unknown -> 1
      [] x = True -> 2
      [] x = False -> 3
      [] x = Both -> 4

\* C17 (under ScalarSpec): on the four-valued Value, a.And(b) and a.Or(b) are
\* the entries of the tests' tables for all 16 pairs; True And Both = Both,
\* False And Both = False, Unknown And Both = False, True Or Both = True,
\* False Or Both = Both, Unknown Or Both = True.
C17_ValueTruthTables ==
    logic = "Value scalar" =>
        /\ last.op = "And" =>
              /\ r = AndExpected[Row(last.x)][Row(last.y)]
              /\ (last.x = True /\ last.y = Both) => r = Both
              /\ (last.x = False /\ last.y = Both) => r = False
              /\ (last.x = Unknown /\ last.y = Both) => r = False
        /\ last.op = "Or" =>
              /\ r = OrExpected[Row(last.x)][Row(last.y)]
              /\ (last.x = True /\ last.y = Both) => r = True
              /\ (last.x = False /\ last.y = Both) => r = Both
              /\ (last.x = Unknown /\ last.y = Both) => r = True

\* Unknown.And(Both) was computed.
C17_Witness ==
    /\ logic = "Value scalar"
    /\ last.op = "And"
    /\ last.x = Unknown
    /\ last.y = Both
    /\ r = False

\* The Value of the same name as a Kleene.
AsValue(k) ==
    CASE k = Kleene_Unknown -> Unknown
      [] k = Kleene_True -> True
      [] k = Kleene_False -> False

ValueOp(op, x, y) ==
    CASE op = "Not" -> ValueNot(x)
      [] op = "And" -> ValueAnd(x, y)
      [] op = "Or" -> ValueOr(x, y)
      [] op = "Implies" -> ValueImplies(x, y)

\* C18 (under ScalarSpec): on the three-valued Kleene, Not swaps True and False
\* and fixes Unknown; False is absorbing and True the identity of And; True is
\* absorbing and False the identity of Or; Implies(a, b) is Not(a).Or(b); and
\* the four-valued operator of the same name gives the same result on the
\* same-named values, which is never Both.
C18_KleeneOperators ==
    (logic = "Kleene scalar" /\ last.op \in {"Not", "And", "Or", "Implies"}) =>
        /\ r \in Kleene
        /\ last.op = "Not" =>
              /\ last.x = Kleene_True => r = Kleene_False
              /\ last.x = Kleene_False => r = Kleene_True
              /\ last.x = Kleene_Unknown => r = Kleene_Unknown
        /\ last.op = "And" =>
              /\ (last.x = Kleene_False \/ last.y = Kleene_False) => r = Kleene_False
              /\ last.x = Kleene_True => r = last.y
              /\ last.y = Kleene_True => r = last.x
              /\ (last.x = Kleene_Unknown /\ last.y = Kleene_Unknown) => r = Kleene_Unknown
        /\ last.op = "Or" =>
              /\ (last.x = Kleene_True \/ last.y = Kleene_True) => r = Kleene_True
              /\ last.x = Kleene_False => r = last.y
              /\ last.y = Kleene_False => r = last.x
              /\ (last.x = Kleene_Unknown /\ last.y = Kleene_Unknown) => r = Kleene_Unknown
        /\ last.op = "Implies" =>
              /\ last.x = Kleene_False => r = Kleene_True
              /\ last.x = Kleene_True => r = last.y
              /\ last.x = Kleene_Unknown =>
                    r = IF last.y = Kleene_True THEN Kleene_True ELSE Kleene_Unknown
        /\ AsValue(r) = ValueOp(last.op, AsValue(last.x), AsValue(last.y))
        /\ ValueOp(last.op, AsValue(last.x), AsValue(last.y)) # Both

\* Unknown.And(False) was computed on the three-valued type.
C18_Witness ==
    /\ logic = "Kleene scalar"
    /\ last.op = "And"
    /\ last.x = Kleene_Unknown
    /\ last.y = Kleene_False
    /\ r = Kleene_False

\* Not of the scalar type in use.
ScalarNotOf(x) == IF logic = "Kleene scalar" THEN Kleene_Not(x) ELSE ValueNot(x)

\* C19 (under AlgebraSpec): on a scalar of either type Not(Not(x)) = x, with
\* Not(Both) = Both and Not(Unknown) = Unknown; on a vector of either type
\* v.Not() has the width of v, and v.Not().Not() has the width of v and the
\* value of v at every index.
C19_NotInvolution ==
    /\ (logic \in ScalarTypes /\ last.op = "Not") =>
          /\ ScalarNotOf(r) = last.x
          /\ (logic = "Value scalar" /\ last.x = Both) => r = Both
          /\ (logic = "Value scalar" /\ last.x = Unknown) => r = Unknown
          /\ (logic = "Kleene scalar" /\ last.x = Kleene_Unknown) => r = Kleene_Unknown
    /\ (logic \in VectorTypes /\ last.op = "Not") =>
          LET back == VecNot(logic, r)
          IN  /\ r.width = post.width
              /\ back.width = post.width
              /\ \A i \in 0 .. (post.width - 1) : Read(back, i) = Read(post, i)
              /\ OutOfBounds(back, post.width)

\* Not was applied to a vector ending in a partial second word that holds True
\* or False in both words.
C19_Witness ==
    /\ logic \in VectorTypes
    /\ last.op = "Not"
    /\ post.width = 65
    /\ Read(post, 0).val \in {True, False}
    /\ Read(post, 64).val \in {True, False}
    /\ Read(r, 0).val # Read(post, 0).val
    /\ Read(r, 64).val # Read(post, 64).val

\* Two vectors with the same width and the same value at every index.
SameVector(x, y) == x.width = y.width /\ x.words = y.words

\* Third operands for the associative law.
Thirds ==
    {vecs["a"], vecs["b"], r, BelnapAllTrue(bitsMask + 2), BelnapAllFalse(bitsMask + 1)}

\* C20 (under AlgebraSpec): Merge of two Values, and Merge of two BelnapVecs
\* taken element by element, is commutative and associative; Unknown Merge x
\* is x; True Merge False is Both; Both Merge x is Both; x Merge x is x.
C20_MergeLaws ==
    /\ (logic = "Value scalar" /\ last.op = "Merge") =>
          /\ r = ValueMerge(last.y, last.x)
          /\ \A z \in Value : ValueMerge(r, z) = ValueMerge(last.x, ValueMerge(last.y, z))
          /\ last.x = Unknown => r = last.y
          /\ (last.x = True /\ last.y = False) => r = Both
          /\ last.x = Both => r = Both
          /\ last.x = last.y => r = last.x
    /\ (logic = "Belnap" /\ last.op = "Merge") =>
          /\ SameVector(r, BelnapVec_Merge(other, post))
          /\ \A z \in Thirds :
                SameVector(BelnapVec_Merge(r, z),
                           BelnapVec_Merge(post, BelnapVec_Merge(other, z)))
          /\ \A i \in 0 .. (r.width - 1) :
                /\ Ext(post, i) = Unknown => Reads(r, i, Ext(other, i))
                /\ (Ext(post, i) = True /\ Ext(other, i) = False) => Reads(r, i, Both)
                /\ Ext(post, i) = Both => Reads(r, i, Both)
                /\ Ext(post, i) = Ext(other, i) => Reads(r, i, Ext(post, i))
          /\ SameVector(BelnapVec_Merge(NewBelnapVec(post.width), post), post)
          /\ SameVector(BelnapVec_Merge(newBelnapFilled(post.width, Both), post),
                        newBelnapFilled(post.width, Both))
          /\ SameVector(BelnapVec_Merge(post, post), post)

\* A two-word vector holding True was merged with a shorter one holding False:
\* the result holds Both where both have information and True beyond.
C20_Witness ==
    /\ logic = "Belnap"
    /\ last.op = "Merge"
    /\ post.width = 65
    /\ other.width = 64
    /\ Reads(post, 63, True)
    /\ Reads(other, 63, False)
    /\ Reads(r, 63, Both)
    /\ Reads(r, 64, True)

\* The Value a word pair <<pos, neg>> encodes at bit k: (neg << 1) | pos.
BitValue(w, k) ==
    fromBits[(2 * (IF k \in w[2] THEN 1 ELSE 0) + (IF k \in w[1] THEN 1 ELSE 0)) + 1]

\* The scalar operator a word function is named after.
ScalarOfWord(op, x, y) ==
    CASE op = "andWord" -> ValueAnd(x, y)
      [] op = "orWord" -> ValueOr(x, y)
      [] op = "mergeWord" -> ValueMerge(x, y)
      [] op = "notWord" -> ValueNot(x)

\* C21 (under WordSpec): at every bit k of [0, 64) the pair andWord, orWord,
\* mergeWord or notWord returns encodes the scalar And, Or, Merge or Not of
\* the values its arguments encode at bit k, whatever the other bits hold.
C21_WordOpsRefineScalar ==
    (logic = "words" /\ last.op \in {"andWord", "orWord", "mergeWord", "notWord"}) =>
        \A k \in AllOnes :
            BitValue(r, k) = ScalarOfWord(last.op, BitValue(last.x, k), BitValue(last.y, k))

\* andWord was applied to pairs that encode True and Both at bit 0 and
\* Unknown and Both at bit 1, and returned Both at bit 0 and False at bit 1.
C21_Witness ==
    /\ logic = "words"
    /\ last.op = "andWord"
    /\ BitValue(last.x, 0) = True
    /\ BitValue(last.y, 0) = Both
    /\ BitValue(last.x, 1) = Unknown
    /\ BitValue(last.y, 1) = Both
    /\ BitValue(r, 0) = Both
    /\ BitValue(r, 1) = False

\* C22: a.Implies(b) is a.Not().Or(b): its width is max(a.Width(), b.Width())
\* and at every index it holds the scalar Implies of the operands' values, an
\* operand counting as Unknown beyond its width.
C22_VectorImplies ==
    last.op = "Implies" =>
        /\ SameVector(r, VecOr(logic, VecNot(logic, post), other))
        /\ r.width = Max(post.width, other.width)
        /\ \A i \in 0 .. (r.width - 1) :
              Reads(r, i, ValueImplies(Ext(post, i), Ext(other, i)))

\* Implies of an empty receiver and a longer operand that holds False at 0
\* and True at 64: the result is Unknown at 0 and True at 64.
C22_Witness ==
    /\ last.op = "Implies"
    /\ post.width = 0
    /\ other.width = bitsMask + 2
    /\ Reads(other, 0, False)
    /\ Reads(other, bitsMask + 1, True)
    /\ Reads(r, 0, Unknown)
    /\ Reads(r, bitsMask + 1, True)

\* C23 (under ScalarSpec): on the four-valued Value, IsKnown / HasInfo return
\* true exactly for True, False and Both; IsDetermined exactly for True and
\* False; IsContradicted exactly for Both; ToBool returns ok = true exactly
\* for True and False, with val = true for True and val = false for False.
C23_Classification ==
    logic = "Value scalar" =>
        /\ last.op \in {"IsKnown", "HasInfo"} =>
              (last.ret <=> last.x \in {True, False, Both})
        /\ last.op = "IsDetermined" => (last.ret <=> last.x \in {True, False})
        /\ last.op = "IsContradicted" => (last.ret <=> last.x = Both)
        /\ last.op = "ToBool" =>
              /\ last.ret[2] <=> last.x \in {True, False}
              /\ last.x = True => last.ret[1]
              /\ last.x = False => ~last.ret[1]

\* ToBool was called on Both and returned ok = false.
C23_Witness ==
    /\ logic = "Value scalar"
    /\ last.op = "ToBool"
    /\ last.x = Both
    /\ ~last.ret[2]

\* No bit is set in both words of a pair of v.
PlanesDisjoint(v) ==
    \A k \in 1 .. (Len(v.words) \div 2) : v.words[2 * k - 1] \cap v.words[2 * k] = {}

\* C25: after any sequence of constructor calls, Set, Truncate, Resize, Not,
\* And, Or and Implies, the KleeneVec the last call constructed, wrote to or
\* returned has pos & neg == 0 in every word pair and Get returns Both at no
\* index; so has the KleeneVec a successful ToKleeneVec returns.
C25_KleeneInvariant ==
    /\ (logic = "Kleene" /\ last.op # "FromKleene") =>
          /\ PlanesDisjoint(Latest)
          /\ \A i \in 0 .. (Latest.width - 1) : KleeneVec_Get(Latest, i).val # Both
    /\ (logic = "Belnap" /\ last.op = "ToKleene" /\ ~last.err) =>
          /\ PlanesDisjoint(r)
          /\ \A i \in 0 .. (r.width - 1) : KleeneVec_Get(r, i).val # Both

\* Set(i, True) was called on a KleeneVec that held False at i.
C25_Witness ==
    /\ logic = "Kleene"
    /\ last.op = "Set"
    /\ ~last.panicked
    /\ last.val = True
    /\ Reads(pre, last.i, False)
    /\ Reads(post, last.i, True)

\* x and y have the same width and Get returns the same at every index.
SameContents(x, y) ==
    /\ x.width = y.width
    /\ \A i \in 0 .. (x.width - 1) : Read(x, i) = Read(y, i)

\* C28: a.And(b).Not() has the width and, at every index, the value of
\* a.Not().Or(b.Not()), and a.Or(b).Not() those of a.Not().And(b.Not()), for
\* operands of equal or of different widths.
C28_DeMorgan ==
    /\ last.op = "And" =>
          LET lhs == VecNot(logic, r)
              rhs == VecOr(logic, VecNot(logic, post), VecNot(logic, other))
          IN  SameContents(lhs, rhs) /\ SameVector(lhs, rhs)
    /\ last.op = "Or" =>
          LET lhs == VecNot(logic, r)
              rhs == VecAnd(logic, VecNot(logic, post), VecNot(logic, other))
          IN  SameContents(lhs, rhs) /\ SameVector(lhs, rhs)

\* And of a one-element receiver holding True and a longer operand holding
\* False at 0 and at 64: the negation of the result is True at 0 and at 64.
C28_Witness ==
    /\ last.op = "And"
    /\ post.width = 1
    /\ other.width = bitsMask + 2
    /\ Reads(post, 0, True)
    /\ Reads(other, 0, False)
    /\ Reads(other, bitsMask + 1, False)
    /\ Reads(VecNot(logic, r), 0, True)
    /\ Reads(VecNot(logic, r), bitsMask + 1, True)

\* C26 (under ShrinkSpec): once a vector was shrunk by Truncate or Resize, a
\* Resize(m, fill) that grows it from width n reads fill at every index of
\* [n, m), and a Set(i, x) with i >= n reads Unknown at every index of [n, i),
\* whatever the vector held before the shrink and whether or not the words
\* appended reuse the backing array's spare capacity.
C26_ShrinkIsIrreversible ==
    (r.shrunk /\ ~last.panicked) =>
        /\ (last.op = "Resize" /\ last.i > pre.width) =>
              \A i \in pre.width .. (last.i - 1) : Reads(post, i, last.val)
        /\ (last.op = "Set" /\ last.i >= pre.width) =>
              \A i \in pre.width .. (last.i - 1) : Reads(post, i, Unknown)

\* A vector that held True at 1 and at 64 was shrunk to width 1, its second
\* word pair staying in the backing array, and Resize(65, False) grew it
\* over that pair: it reads False at 1 and at 64.
C26_Witness ==
    /\ r.shrunk
    /\ r.from.width = bitsMask + 2
    /\ Reads(r.from, 1, True)
    /\ Reads(r.from, bitsMask + 1, True)
    /\ pre.width = 1
    /\ Len(pre.spare) >= 2
    /\ Nonzero(pre.spare)
    /\ last.op = "Resize"
    /\ last.i = bitsMask + 2
    /\ last.val = False
    /\ Reads(post, 1, False)
    /\ Reads(post, bitsMask + 1, False)

\* C29 (under ArgSpec): whatever integers the constructors, Set, Truncate and
\* Resize are called with, a call either faults and leaves the vector as it
\* was, or leaves it with Width() >= 0, a backing store of exactly
\* 2*wordsNeeded(Width()) words and CountUnknown() >= 0.
C29_WidthNeverNegative ==
    last.op # "none" =>
        IF last.panicked
          THEN post = pre
          ELSE /\ post.width >= 0
               /\ Len(post.words) = 2 * wordsNeeded(post.width)
               /\ VecCountUnknown(logic, post) >= 0

\* Quotient and remainder of a non-negative int x by d, 0 < d < Limb, by long
\* division from the most significant limb.
DivMod(x, d) ==
    LET q4 == x[4] \div d
        t3 == (x[4] % d) * Limb + x[3]
        q3 == t3 \div d
        t2 == (t3 % d) * Limb + x[2]
        q2 == t2 \div d
        t1 == (t2 % d) * Limb + x[1]
        q1 == t1 \div d
    IN  [quot |-> <<q1, q2, q3, q4>>, rem |-> t1 % d]

\* ceil(n / 64) of a non-negative int n.
CeilDiv64OfInt(n) ==
    LET dm == DivMod(n, bitsMask + 1)
    IN  Add64(dm.quot, IF dm.rem = 0 THEN 0 ELSE 1)

\* C27 (under ArithSpec): for every int n >= 0, wordsNeeded(n) is ceil(n/64),
\* so 0 at 0, 1 at 64 and 2 at 65, and tailMask(n) has exactly the low
\* (n mod 64) bits set, or all 64 bits when n mod 64 is 0.
C27_WordArithmetic ==
    /\ (last.op = "wordsNeeded" /\ ~IsNegative(last.x)) =>
          /\ r = CeilDiv64OfInt(last.x)
          /\ last.x = IntOfNat(0) => r = IntOfNat(0)
          /\ last.x = IntOfNat(bitsMask + 1) => r = IntOfNat(1)
          /\ last.x = IntOfNat(bitsMask + 2) => r = IntOfNat(2)
    /\ (last.op = "tailMask" /\ ~IsNegative(last.x)) =>
          LET m == DivMod(last.x, bitsMask + 1).rem
          IN  r = IF m = 0 THEN AllOnes ELSE {k \in AllOnes : k < m}

\* The same statement for the ints n with n + bitsMask <= math.MaxInt, which
\* holds.
WordArithmeticBelowWrap ==
    (last.x[4] < MaxInt[4] \/ last.x[1] <= MaxInt[1] - bitsMask) => C27_WordArithmetic

\* C30 (under ClientSpec): a request to "posts/all" is sent, that is rateLimit
\* returns, at least PostsAllRate after the previous request to "posts/all"
\* was sent, and a request to "posts/recent" at least PostsRecentRate after
\* the previous one to "posts/recent", the retry after a 429 included.
C30_FixedInterval ==
    (last.op \in {"makeRequest", "retry"} /\ last.prev # ZeroTime) =>
        /\ last.endpoint = "posts/all" => last.sent - last.prev >= PostsAllRate
        /\ last.endpoint = "posts/recent" => last.sent - last.prev >= PostsRecentRate

\* What the operator op returns when it runs alone.
Alone(op, x, y) ==
    CASE op = "Not" -> VecNot(logic, x)
      [] op = "And" -> VecAnd(logic, x, y)
      [] op = "Or" -> VecOr(logic, x, y)
      [] op = "Implies" -> VecImplies(logic, x, y)
      [] op = "Merge" -> BelnapVec_Merge(x, y)

====
